---- MODULE Spec2Model ----
(***************************************************************************)
(* Model of cmkinitramfs: the Data dependency graph and its load/unload    *)
(* scheduler (cmkinitramfs/data.py), the init script emitter mkinit        *)
(* (cmkinitramfs/init.py) and the item store of the image builder          *)
(* (cmkinitramfs/initramfs.py, cmkinitramfs/item.py).                      *)
(***************************************************************************)
EXTENDS Integers, Sequences, FiniteSets, TLC

(***************************************************************************)
(* Bounds of the model.                                                    *)
(***************************************************************************)
\* number of Data objects created by the configuration
NumData == 3
\* number of add_dep / add_load_dep calls made during configuration
MaxEdges == 3
\* number of entries of the mountpoints list handed to mkinit
MaxMounts == 1
\* the same two numbers where the sections of the script are looked at
ScriptEdges == 2
ScriptMounts == 2
\* number of add_item calls made on a constructed Initramfs
MaxAdds == 3
\* longest string handed to Initramfs.__normalize, in symbols
MaxPathLen == 8
\* number of runs of cmkcpiolist on the same configuration and host
MaxRuns == 2

\* number of tokens of /proc/cmdline
MaxTokens == 2
\* number of symbols of the list of a rd.break= token
MaxCsv == 3

\* number of sources of an MdData object
MaxSources == 3

\* number of directories of DT_RPATH, LD_LIBRARY_PATH, DT_RUNPATH, ld.so.conf
MaxDirs == 1

\* sections of the configuration file read_config reads
MaxSections == 2

\* identifiers resolved by find_data in one run of read_config
MaxLookups == 3

\* files of the module tree of a kernel
MaxFiles == 2

Data == 1..NumData

(***************************************************************************)
(* The Data objects.  Objects 1 and 2 are LvmData, every other object is a *)
(* Network.  Python compares Data objects with __eq__ (structural), never  *)
(* by identity alone, so the class of each object and its subclass         *)
(* attributes (the variable key) are part of the model.                    *)
(***************************************************************************)
DataClass == [n \in Data |-> IF n <= 2 THEN "LvmData" ELSE "Network"]

VARIABLES
    key,         \* the subclass attributes of each object (LvmData: vg_name
                 \* and lv_name, Network: device), set by the constructor
    need,        \* Data._need: hard dependencies, a list per object
    lneed,       \* Data._lneed: load-only dependencies, a list per object
    needed_by,   \* Data._needed_by: reverse dependencies, a list per object
    is_final,    \* Data._is_final
    is_loaded,   \* Data._is_loaded
    out,         \* the text stream mkinit writes into, one entry per fragment
    stack,       \* call stack of load()/unload() activations, top last
    phase,       \* "config", "mkinit", "done" or "error"
    err,         \* the exception that ended the program, "" if none
    root,        \* mkinit's root argument (0 before mkinit is called)
    mounts,      \* mkinit's mounts argument
    mi,          \* mkinit's position: 0 = root.load, k = k-th mount's load
    nedges,      \* number of edge additions made so far
    items,       \* Initramfs.items: the item store, in insertion order
    new_item,    \* the argument of the latest Initramfs.add_item call
    raised,      \* the exception that call raised, "" if it returned
    nadds,       \* number of add_item calls made on the constructed store
    norm_path,   \* the argument of Initramfs.__normalize
    normalized,  \* what the call gave: the exception raised and the path
    build_host,  \* the building host: its library directories and busybox
    config,      \* the Config read_config returned
    bpc,         \* where the build is: "idle", a loop of _build_initramfs
                 \* ("files", "libs", "execs"), "rest", a step of add_busybox
                 \* ("busybox", "applets", "needed"), "list", "done", "raised"
    todo,        \* what the running loop over a set has still to visit
    ai,          \* position of add_busybox in the applets busybox reports
    cpio,        \* the CPIO lists written so far, one per run of cmkcpiolist
    proc_cmdline, \* the content of /proc/cmdline, a list of tokens
    words,       \* the list the parser's for loop iterates over
    wi,          \* position of that loop in words
    cpc,         \* where the parser is: "off", "start", "for", "done"
    env,         \* the shell variables of /init
    md,          \* an MdData object: its sources and its name
    md_loaded,   \* its _is_loaded
    md_out,      \* the stream its load writes into
    called,      \* the function called on its own, "" when there is none
    args,        \* the arguments of that call and the host it runs on
    result       \* <<>> before the call; then what it returned or raised

dvars == <<key, need, lneed, needed_by, is_final, is_loaded, out, stack, phase,
           err, root, mounts, mi, nedges>>

svars == <<items, new_item, raised, nadds>>

nvars == <<norm_path, normalized>>

\* the variables neither the Data graph nor the item store has
bvars == <<build_host, config, bpc, todo, ai, cpio>>

\* the variables of the command-line parser of /init
cvars == <<proc_cmdline, words, wi, cpc, env>>

\* the variables of an MdData object loaded on its own
mvars == <<md, md_loaded, md_out>>

\* the variables of a function called on its own
fvars == <<called, args, result>>

xvars == <<cvars, mvars, fvars>>

ovars == <<nvars, bvars, xvars>>

(***************************************************************************)
(* Python list helpers.                                                    *)
(***************************************************************************)
Range(s) == {s[i] : i \in 1..Len(s)}

\* list.pop(i - 1): the list without its i-th element
RemoveAt(s, i) == SubSeq(s, 1, i - 1) \o SubSeq(s, i + 1, Len(s))

(***************************************************************************)
(* Data.__eq__ and the subclass __eq__ methods.  The result is "T", "F" or *)
(* "R": the comparison recurses through _need and _lneed, and on a graph   *)
(* where it meets the pair it is already comparing it never returns        *)
(* (Python raises RecursionError).  List membership, list.remove and list  *)
(* equality first test identity (PyObject_RichCompareBool).                *)
(***************************************************************************)
RECURSIVE DataEq(_, _, _, _, _, _)
RECURSIVE ListEq(_, _, _, _, _, _, _)

DataEq(nd, ln, fin, a, b, seen) ==
    IF a = b THEN "T"
    ELSE IF DataClass[a] # DataClass[b] THEN "F"
    ELSE IF <<a, b>> \in seen THEN "R"
    ELSE LET s2 == seen \cup {<<a, b>>}
             r1 == ListEq(nd, ln, fin, nd[a], nd[b], 1, s2)
         IN  IF r1 # "T" THEN r1
             ELSE LET r2 == ListEq(nd, ln, fin, ln[a], ln[b], 1, s2)
                  IN  IF r2 # "T" THEN r2
                      ELSE IF fin[a] # fin[b] THEN "F"
                      ELSE IF key[a] # key[b] THEN "F"
                      ELSE "T"

ListEq(nd, ln, fin, s, t, i, seen) ==
    IF Len(s) # Len(t) THEN "F"
    ELSE IF i > Len(s) THEN "T"
    ELSE LET r == DataEq(nd, ln, fin, s[i], t[i], seen)
         IN  IF r # "T" THEN r
             ELSE ListEq(nd, ln, fin, s, t, i + 1, seen)

\* list.index(x) + 1: position of the first element equal to x,
\* 0 when there is none, -1 when a comparison does not return
RECURSIVE ListIndex(_, _, _, _, _, _)
ListIndex(nd, ln, fin, x, s, i) ==
    IF i > Len(s) THEN 0
    ELSE LET r == DataEq(nd, ln, fin, s[i], x, {})
         IN  IF r = "T" THEN i
             ELSE IF r = "R" THEN -1
             ELSE ListIndex(nd, ln, fin, x, s, i + 1)

(***************************************************************************)
(* Data.__init__ and the subclass constructors.  The sections of the       *)
(* configuration either name pairwise different devices, or sections 1 and *)
(* 2 name the same logical volume.                                         *)
(***************************************************************************)
DataInit ==
    /\ key \in {[n \in Data |-> n], [n \in Data |-> IF n = 2 THEN 1 ELSE n]}
    /\ need = [n \in Data |-> <<>>]
    /\ lneed = [n \in Data |-> <<>>]
    /\ needed_by = [n \in Data |-> <<>>]
    /\ is_final = [n \in Data |-> FALSE]
    /\ is_loaded = [n \in Data |-> FALSE]
    /\ out = <<>>
    /\ stack = <<>>
    /\ phase = "config"
    /\ err = ""
    /\ root = 0
    /\ mounts = <<>>
    /\ mi = 0
    /\ nedges = 0

\* an exception nobody catches ends the program
Raise(e) ==
    /\ phase' = "error"
    /\ err' = e

(***************************************************************************)
(* Data.add_dep(dep)                                                       *)
(***************************************************************************)
add_dep_run(nd, ln, nb, fin, self, dep) ==
    LET i1 == ListIndex(nd, ln, fin, dep, ln[self], 1)
    IN  IF i1 = -1 THEN [need |-> nd, lneed |-> ln, needed_by |-> nb, e |-> "RecursionError"]
        ELSE
        LET ln1 == IF i1 > 0 THEN [ln EXCEPT ![self] = RemoveAt(@, i1)] ELSE ln
            i2 == ListIndex(nd, ln1, fin, dep, nd[self], 1)
        IN  IF i2 = -1 THEN [need |-> nd, lneed |-> ln1, needed_by |-> nb, e |-> "RecursionError"]
            ELSE
            LET nd1 == IF i2 = 0 THEN [nd EXCEPT ![self] = Append(@, dep)] ELSE nd
                i3 == ListIndex(nd1, ln1, fin, self, nb[dep], 1)
            IN  IF i3 = -1 THEN [need |-> nd1, lneed |-> ln1, needed_by |-> nb, e |-> "RecursionError"]
                ELSE [need |-> nd1, lneed |-> ln1,
                      needed_by |-> IF i3 = 0 THEN [nb EXCEPT ![dep] = Append(@, self)] ELSE nb,
                      e |-> ""]

add_dep(self, dep) ==
    /\ phase = "config"
    /\ nedges < MaxEdges
    /\ LET r == add_dep_run(need, lneed, needed_by, is_final, self, dep)
       IN  /\ need' = r.need
           /\ lneed' = r.lneed
           /\ needed_by' = r.needed_by
           /\ IF r.e = "" THEN UNCHANGED <<phase, err>> ELSE Raise(r.e)
    /\ nedges' = nedges + 1
    /\ UNCHANGED <<svars, ovars, key, is_final, is_loaded, out, stack, root, mounts, mi>>

(***************************************************************************)
(* Data.add_load_dep(dep)                                                  *)
(***************************************************************************)
add_load_dep_run(nd, ln, nb, fin, self, dep) ==
    LET i1 == ListIndex(nd, ln, fin, dep, ln[self], 1)
        \* "dep not in self._lneed and dep not in self._need": the second
        \* test is evaluated only when the first holds
        i2 == IF i1 = 0 THEN ListIndex(nd, ln, fin, dep, nd[self], 1) ELSE 1
    IN  IF i1 = -1 \/ i2 = -1
        THEN [need |-> nd, lneed |-> ln, needed_by |-> nb, e |-> "RecursionError"]
        ELSE
        LET ln1 == IF i1 = 0 /\ i2 = 0 THEN [ln EXCEPT ![self] = Append(@, dep)] ELSE ln
            i3 == ListIndex(nd, ln1, fin, self, nb[dep], 1)
        IN  IF i3 = -1 THEN [need |-> nd, lneed |-> ln1, needed_by |-> nb, e |-> "RecursionError"]
            ELSE [need |-> nd, lneed |-> ln1,
                  needed_by |-> IF i3 = 0 THEN [nb EXCEPT ![dep] = Append(@, self)] ELSE nb,
                  e |-> ""]

add_load_dep(self, dep) ==
    /\ phase = "config"
    /\ nedges < MaxEdges
    /\ LET r == add_load_dep_run(need, lneed, needed_by, is_final, self, dep)
       IN  /\ need' = r.need
           /\ lneed' = r.lneed
           /\ needed_by' = r.needed_by
           /\ IF r.e = "" THEN UNCHANGED <<phase, err>> ELSE Raise(r.e)
    /\ nedges' = nedges + 1
    /\ UNCHANGED <<svars, ovars, key, is_final, is_loaded, out, stack, root, mounts, mi>>

(***************************************************************************)
(* Data.set_final(): sets the flag, then recurses over _need in list       *)
(* order.  The recursion has no visited test: when it re-enters an object  *)
(* that is on the call stack it never returns and Python raises            *)
(* RecursionError, after the objects visited so far have been marked.      *)
(***************************************************************************)
RECURSIVE set_final_run(_, _, _)
RECURSIVE set_final_deps(_, _, _, _)

set_final_run(fin, self, path) ==
    IF self \in path THEN [fin |-> fin, rec |-> TRUE]
    ELSE set_final_deps([fin EXCEPT ![self] = TRUE], self, 1, path \cup {self})

set_final_deps(fin, self, i, path) ==
    IF i > Len(need[self]) THEN [fin |-> fin, rec |-> FALSE]
    ELSE LET r == set_final_run(fin, need[self][i], path)
         IN  IF r.rec THEN r ELSE set_final_deps(r.fin, self, i + 1, path)

set_final(self) ==
    /\ phase = "config"
    /\ LET r == set_final_run(is_final, self, {})
       IN  /\ is_final' = r.fin
           /\ IF r.rec THEN Raise("RecursionError") ELSE UNCHANGED <<phase, err>>
    /\ UNCHANGED <<svars, ovars, key, need, lneed, needed_by, is_loaded, out, stack, root, mounts,
                   mi, nedges>>

(***************************************************************************)
(* Data.iter_all_deps(): the objects it yields, and whether the generator  *)
(* ends (it recurses without a visited test).                              *)
(***************************************************************************)
Deps(n) == Range(need[n] \o lneed[n])

RECURSIVE ReachFrom(_, _)
ReachFrom(S, k) ==
    IF k = 0 THEN S
    ELSE ReachFrom(S \cup UNION {Deps(n) : n \in S}, k - 1)

iter_all_deps(n) == ReachFrom(Deps(n), NumData)

\* the generator of n ends iff no object it yields, nor n, depends on itself
iter_all_deps_ends(n) ==
    \A x \in {n} \cup iter_all_deps(n) : x \notin iter_all_deps(x)

(***************************************************************************)
(* The call stack of the emission pass.  A frame is one activation of      *)
(* load() or unload(); i is the position of the for loop it is in.         *)
(***************************************************************************)
Frame(fn, self, pc, i) == [fn |-> fn, self |-> self, pc |-> pc, i |-> i]

Top == stack[Len(stack)]
Pop == SubSeq(stack, 1, Len(stack) - 1)
\* the top frame moves to (pc, i)
Goto(pc, i) == Append(Pop, [Top EXCEPT !.pc = pc, !.i = i])
\* the top frame moves to (pc, i) and calls fn on k
Call(pc, i, fn, k) ==
    Append(Goto(pc, i), Frame(fn, k, IF fn = "load" THEN "pre_load" ELSE "pre_unload", 1))

Running == phase = "mkinit" /\ stack # <<>>

(***************************************************************************)
(* mkinit(): everything up to the call of root.load(out).                  *)
(***************************************************************************)
\* the classes whose initialize() writes something (Data.initialize and
\* the classes that do not redefine it write nothing)
Initializers == {"LvmData", "Network"}

datatypes(r, ms) ==
    {DataClass[n] : n \in UNION {{d} \cup iter_all_deps(d) : d \in {r} \cup Range(ms)}}

\* sequences of at most n distinct objects other than r
MountListsOf(r, n) ==
    {ms \in UNION {[1..k -> Data \ {r}] : k \in 0..n} :
        \A i, j \in 1..Len(ms) : i # j => ms[i] # ms[j]}

MountLists(r) == MountListsOf(r, MaxMounts)

\* mkinit with the INIT gate written before the class initializers
mkinit_gate_first(r, ms, keymap, modules) ==
    /\ phase = "config"
    /\ root' = r
    /\ mounts' = ms
    /\ mi' = 0
    /\ IF \A d \in {r} \cup Range(ms) : iter_all_deps_ends(d)
       THEN /\ out' = <<  <<"do_header", 0>>, <<"do_break", "EARLY">>,
                          <<"do_init", 0>>, <<"do_cmdline", 0>> >>
                       \o (IF keymap # "None" THEN << <<"do_keymap", keymap>> >> ELSE <<>>)
                       \o << <<"do_break", "INIT">>,
                             <<"initialize", datatypes(r, ms) \cap Initializers>> >>
                       \o [i \in 1..Len(modules) |-> <<"do_module", modules[i]>>]
                       \o << <<"do_break", "MODULE">> >>
            /\ phase' = "mkinit"
            /\ stack' = <<Frame("load", r, "pre_load", 1)>>
            /\ err' = err
       ELSE /\ Raise("RecursionError")
            /\ UNCHANGED <<out, stack>>
    /\ UNCHANGED <<svars, ovars, key, need, lneed, needed_by, is_final, is_loaded, nedges>>

\* keymap is the path of the keymap or "None", modules the names of the
\* kernel modules in the order of the mapping
mkinit(r, ms, keymap, modules) ==
    /\ phase = "config"
    /\ root' = r
    /\ mounts' = ms
    /\ mi' = 0
    /\ IF \A d \in {r} \cup Range(ms) : iter_all_deps_ends(d)
       THEN /\ out' = <<  <<"do_header", 0>>, <<"do_break", "EARLY">>,
                          <<"do_init", 0>>, <<"do_cmdline", 0>> >>
                       \o (IF keymap # "None" THEN << <<"do_keymap", keymap>> >> ELSE <<>>)
                       \o << <<"initialize", datatypes(r, ms) \cap Initializers>>,
                             <<"do_break", "INIT">> >>
                       \o [i \in 1..Len(modules) |-> <<"do_module", modules[i]>>]
                       \o << <<"do_break", "MODULE">> >>
            /\ phase' = "mkinit"
            /\ stack' = <<Frame("load", r, "pre_load", 1)>>
            /\ err' = err
       ELSE /\ Raise("RecursionError")
            /\ UNCHANGED <<out, stack>>
    /\ UNCHANGED <<svars, ovars, key, need, lneed, needed_by, is_final, is_loaded, nedges>>

\* root.load(out) has returned: ROOTFS gate, then the mounts in order,
\* then the MOUNT gate and switch_root
mkinit_next ==
    /\ phase = "mkinit"
    /\ stack = <<>>
    /\ IF mi < Len(mounts)
       THEN /\ out' = IF mi = 0 THEN Append(out, <<"do_break", "ROOTFS">>) ELSE out
            /\ stack' = <<Frame("load", mounts[mi + 1], "pre_load", 1)>>
            /\ mi' = mi + 1
            /\ UNCHANGED <<phase>>
       ELSE /\ out' = (IF mi = 0 THEN Append(out, <<"do_break", "ROOTFS">>) ELSE out)
                        \o << <<"do_break", "MOUNT">>, <<"do_switch_root", root>> >>
            /\ phase' = "done"
            /\ UNCHANGED <<stack, mi>>
    /\ UNCHANGED <<svars, ovars, key, need, lneed, needed_by, is_final, is_loaded, err, root,
                   mounts, nedges>>

(***************************************************************************)
(* Data.load(out) = _pre_load, the subclass's writelines, _post_load.      *)
(***************************************************************************)
\* _pre_load: refuse an object that is loaded, else mark it loaded
pre_load ==
    /\ Running
    /\ Top.fn = "load" /\ Top.pc = "pre_load"
    /\ IF is_loaded[Top.self]
       THEN /\ Raise("DataError")
            /\ UNCHANGED <<is_loaded, stack>>
       ELSE /\ is_loaded' = [is_loaded EXCEPT ![Top.self] = TRUE]
            /\ stack' = Goto("pre_deps", 1)
            /\ UNCHANGED <<phase, err>>
    /\ UNCHANGED <<svars, ovars, key, need, lneed, needed_by, is_final, out, root, mounts, mi, nedges>>

\* _pre_load: for k in self._need + self._lneed: if not k._is_loaded: k.load(out)
pre_load_deps ==
    /\ Running
    /\ Top.fn = "load" /\ Top.pc = "pre_deps"
    /\ LET deps == need[Top.self] \o lneed[Top.self]
       IN  IF Top.i > Len(deps)
           THEN stack' = Goto("write", 1)
           ELSE IF is_loaded[deps[Top.i]]
                THEN stack' = Goto("pre_deps", Top.i + 1)
                ELSE stack' = Call("pre_deps", Top.i + 1, "load", deps[Top.i])
    /\ UNCHANGED <<svars, ovars, key, need, lneed, needed_by, is_final, is_loaded, out, phase, err,
                   root, mounts, mi, nedges>>

\* the load fragment of the object is written
write_load ==
    /\ Running
    /\ Top.fn = "load" /\ Top.pc = "write"
    /\ out' = Append(out, <<"load", Top.self>>)
    /\ stack' = Goto(IF is_final[Top.self] THEN "post_lneed" ELSE "post_rev", 1)
    /\ UNCHANGED <<svars, ovars, key, need, lneed, needed_by, is_final, is_loaded, phase, err,
                   root, mounts, mi, nedges>>

\* _post_load: if not self._is_final: for k in self._needed_by:
\*     if not k._is_loaded: k.load(out)
\* The list iterator reads the list as it is at each step.
post_load_rev ==
    /\ Running
    /\ Top.fn = "load" /\ Top.pc = "post_rev"
    /\ LET rev == needed_by[Top.self]
       IN  IF Top.i > Len(rev)
           THEN stack' = Goto("post_lneed", 1)
           ELSE IF is_loaded[rev[Top.i]]
                THEN stack' = Goto("post_rev", Top.i + 1)
                ELSE stack' = Call("post_rev", Top.i + 1, "load", rev[Top.i])
    /\ UNCHANGED <<svars, ovars, key, need, lneed, needed_by, is_final, is_loaded, out, phase, err,
                   root, mounts, mi, nedges>>

\* k._needed_by.remove(self); if not k._needed_by: k.unload(out)
\* done by the top frame on the i-th element of deps, which then goes on at pc
release(deps, pc) ==
    LET self == Top.self
        k == deps[Top.i]
        idx == ListIndex(need, lneed, is_final, self, needed_by[k], 1)
    IN  IF idx = -1
        THEN /\ Raise("RecursionError")
             /\ UNCHANGED <<needed_by, stack>>
        ELSE IF idx = 0
        THEN /\ Raise("ValueError")
             /\ UNCHANGED <<needed_by, stack>>
        ELSE /\ needed_by' = [needed_by EXCEPT ![k] = RemoveAt(@, idx)]
             /\ stack' = IF Len(needed_by[k]) = 1
                         THEN Call(pc, Top.i + 1, "unload", k)
                         ELSE Goto(pc, Top.i + 1)
             /\ UNCHANGED <<phase, err>>

\* _post_load: for k in self._lneed: release k; then load() returns
post_load_lneed ==
    /\ Running
    /\ Top.fn = "load" /\ Top.pc = "post_lneed"
    /\ IF Top.i > Len(lneed[Top.self])
       THEN /\ stack' = Pop
            /\ UNCHANGED <<needed_by, phase, err>>
       ELSE release(lneed[Top.self], "post_lneed")
    /\ UNCHANGED <<svars, ovars, key, need, lneed, is_final, is_loaded, out, root, mounts, mi, nedges>>

(***************************************************************************)
(* Data.unload(out) = _pre_unload, the subclass's writelines, _post_unload *)
(***************************************************************************)
\* the test of _pre_unload
unloadable(n) == is_loaded[n] /\ ~is_final[n] /\ needed_by[n] = <<>>

\* _pre_unload without the test of _is_final
pre_unload_final ==
    /\ Running
    /\ Top.fn = "unload" /\ Top.pc = "pre_unload"
    /\ IF ~is_loaded[Top.self]
       THEN /\ Raise("DataError")
            /\ UNCHANGED stack
       ELSE IF needed_by[Top.self] # <<>>
       THEN /\ Raise("DataError")
            /\ UNCHANGED stack
       ELSE /\ stack' = Goto("write", 1)
            /\ UNCHANGED <<phase, err>>
    /\ UNCHANGED <<svars, ovars, key, need, lneed, needed_by, is_final, is_loaded, out, root,
                   mounts, mi, nedges>>

pre_unload ==
    /\ Running
    /\ Top.fn = "unload" /\ Top.pc = "pre_unload"
    /\ IF ~is_loaded[Top.self]
       THEN /\ Raise("DataError")
            /\ UNCHANGED stack
       ELSE IF is_final[Top.self] \/ needed_by[Top.self] # <<>>
       THEN /\ Raise("DataError")
            /\ UNCHANGED stack
       ELSE /\ stack' = Goto("write", 1)
            /\ UNCHANGED <<phase, err>>
    /\ UNCHANGED <<svars, ovars, key, need, lneed, needed_by, is_final, is_loaded, out, root, mounts,
                   mi, nedges>>

\* the unload fragment of the object is written
write_unload ==
    /\ Running
    /\ Top.fn = "unload" /\ Top.pc = "write"
    /\ out' = Append(out, <<"unload", Top.self>>)
    /\ stack' = Goto("post_need", 1)
    /\ UNCHANGED <<svars, ovars, key, need, lneed, needed_by, is_final, is_loaded, phase, err,
                   root, mounts, mi, nedges>>

\* _post_unload: for k in self._need: release k; then self._is_loaded = False
post_unload ==
    /\ Running
    /\ Top.fn = "unload" /\ Top.pc = "post_need"
    /\ IF Top.i > Len(need[Top.self])
       THEN /\ is_loaded' = [is_loaded EXCEPT ![Top.self] = FALSE]
            /\ stack' = Pop
            /\ UNCHANGED <<needed_by, phase, err>>
       ELSE /\ release(need[Top.self], "post_need")
            /\ UNCHANGED is_loaded
    /\ UNCHANGED <<svars, ovars, key, need, lneed, is_final, out, root, mounts, mi, nedges>>

(***************************************************************************)
(* The items of the image (cmkinitramfs/item.py).  A path is the sequence  *)
(* of its components: <<>> is '/', <<"bin", "a">> is '/bin/a'.  Every item *)
(* is a record with the fields of all the dataclasses; a class leaves the  *)
(* fields it does not have at their blank value.  dests is the set Item's  *)
(* __iter__ yields: File.dests, or the single dest of the other classes.   *)
(***************************************************************************)
\* os.path.dirname on a normalized absolute path
dirname(p) == IF p = <<>> THEN <<>> ELSE SubSeq(p, 1, Len(p) - 1)

File(mode, user, group, dests, src, data_hash) ==
    [class |-> "File", mode |-> mode, user |-> user, group |-> group,
     dests |-> dests, src |-> src, data_hash |-> data_hash,
     target |-> <<>>, nodetype |-> "", major |-> 0, minor |-> 0]

Directory(mode, user, group, dest) ==
    [class |-> "Directory", mode |-> mode, user |-> user, group |-> group,
     dests |-> {dest}, src |-> <<>>, data_hash |-> "",
     target |-> <<>>, nodetype |-> "", major |-> 0, minor |-> 0]

Node(mode, user, group, dest, nodetype, major, minor) ==
    [class |-> "Node", mode |-> mode, user |-> user, group |-> group,
     dests |-> {dest}, src |-> <<>>, data_hash |-> "",
     target |-> <<>>, nodetype |-> nodetype, major |-> major, minor |-> minor]

Symlink(mode, user, group, dest, target) ==
    [class |-> "Symlink", mode |-> mode, user |-> user, group |-> group,
     dests |-> {dest}, src |-> <<>>, data_hash |-> "",
     target |-> target, nodetype |-> "", major |-> 0, minor |-> 0]

\* is_mergeable without the override of File: Item.is_mergeable for every
\* class, so that two Files are mergeable only when equal
is_mergeable_equal(self, other) == self = other

\* Item.is_mergeable (self == other: same class, same fields) and
\* File.is_mergeable (src and dests are not compared)
is_mergeable(self, other) ==
    IF self.class = "File"
    THEN /\ other.class = "File"
         /\ self.data_hash = other.data_hash
         /\ self.mode = other.mode
         /\ self.user = other.user
         /\ self.group = other.group
    ELSE self = other

\* Item.merge is a no-op, File.merge is self.dests |= other.dests
merge(self, other) ==
    IF self.class = "File"
    THEN [self EXCEPT !.dests = @ \cup other.dests]
    ELSE self

(***************************************************************************)
(* Initramfs.add_item(new_item).  add_item_scan is its for loop over the   *)
(* store: m is the position of the mergeable item found so far (0 for      *)
(* None), found the parents recorded so far.  The result is the store      *)
(* after the call, the exception raised ("" if none) and the argument.     *)
(***************************************************************************)
\* the for loop of add_item recording the parents an item owns whether or
\* not the mergeable item was met before it
RECURSIVE add_item_scan_late(_, _, _, _, _)
add_item_scan_late(its, new, i, m, found) ==
    IF i > Len(its) THEN [e |-> "", m |-> m, found |-> found]
    ELSE LET cur_item == its[i]
             mg == is_mergeable(cur_item, new)
             m1 == IF mg THEN i ELSE m
         IN  IF mg /\ m # 0
             THEN [e |-> "AssertionError", m |-> m, found |-> found]
             ELSE IF m1 # i /\ new.dests \cap cur_item.dests # {}
             THEN [e |-> "File collision", m |-> m1, found |-> found]
             ELSE add_item_scan_late(its, new, i + 1, m1,
                      found \cup ({dirname(d) : d \in new.dests} \cap cur_item.dests))

RECURSIVE add_item_scan(_, _, _, _, _)
add_item_scan(its, new, i, m, found) ==
    IF i > Len(its) THEN [e |-> "", m |-> m, found |-> found]
    ELSE LET cur_item == its[i]
             mg == is_mergeable(cur_item, new)
             m1 == IF mg THEN i ELSE m
         IN  IF mg /\ m # 0
             THEN [e |-> "AssertionError", m |-> m, found |-> found]
             ELSE IF m1 # i /\ new.dests \cap cur_item.dests # {}
             THEN [e |-> "File collision", m |-> m1, found |-> found]
             ELSE add_item_scan(its, new, i + 1, m1,
                      IF m1 = 0
                      THEN found \cup ({dirname(d) : d \in new.dests} \cap cur_item.dests)
                      ELSE found)

\* add_item where an item that can be merged is merged without looking at
\* the collisions the scan met
add_item_run_merged(its, new) ==
    LET mergeables == {i \in 1..Len(its) : is_mergeable(its[i], new)}
        r == add_item_scan(its, new, 1, 0, {})
        parents == {dirname(k) : k \in new.dests \ {<<>>}}
    IN  IF mergeables # {}
        THEN LET m == CHOOSE i \in mergeables : \A j \in mergeables : i <= j
             IN  [items |-> [its EXCEPT ![m] = merge(@, new)], e |-> "", new |-> new]
        ELSE IF r.e # "" THEN [items |-> its, e |-> r.e, new |-> new]
        ELSE IF ~(parents \subseteq r.found)
        THEN [items |-> its, e |-> "Missing directory", new |-> new]
        ELSE [items |-> Append(its, new), e |-> "", new |-> new]

add_item_run(its, new) ==
    LET r == add_item_scan(its, new, 1, 0, {})
        parents == {dirname(k) : k \in new.dests \ {<<>>}}
    IN  IF r.e # "" THEN [items |-> its, e |-> r.e, new |-> new]
        ELSE IF ~(parents \subseteq r.found)
        THEN [items |-> its, e |-> "Missing directory", new |-> new]
        ELSE IF r.m # 0
        THEN [items |-> [its EXCEPT ![r.m] = merge(@, new)], e |-> "", new |-> new]
        ELSE [items |-> Append(its, new), e |-> "", new |-> new]

\* the two messages add_item raises MergeError with
MergeError == {"File collision", "Missing directory"}

(***************************************************************************)
(* Path strings.  A string is the sequence of its symbols: the character   *)
(* '/' and the names between two '/' (a name has no '/' in it, and two     *)
(* names are never adjacent).  '/usr//a' is <<"/", "usr", "/", "/", "a">>. *)
(***************************************************************************)
Names == {".", "..", "usr", "local", "a"}

\* the strings of at most n symbols
RECURSIVE Strings(_)
Strings(n) ==
    IF n = 0 THEN {<<>>}
    ELSE LET shorter == Strings(n - 1)
         IN  shorter \cup
             {Append(s, x) : s \in {t \in shorter : Len(t) = n - 1},
                             x \in {"/"}} \cup
             {Append(s, x) : s \in {t \in shorter : /\ Len(t) = n - 1
                                                    /\ (t = <<>> \/ t[Len(t)] = "/")},
                             x \in Names}

\* str.startswith
startswith(string, prefix) ==
    /\ Len(string) >= Len(prefix)
    /\ SubSeq(string, 1, Len(prefix)) = prefix

\* utils.removeprefix
removeprefix(string, prefix) ==
    IF startswith(string, prefix)
    THEN SubSeq(string, Len(prefix) + 1, Len(string))
    ELSE string

\* string.split('/'): the components, "" for an empty one
RECURSIVE split(_)
split(string) ==
    IF string = <<>> THEN <<"">>
    ELSE IF Head(string) = "/" THEN <<"">> \o split(Tail(string))
    ELSE IF Len(string) = 1 THEN string
    ELSE <<Head(string)>> \o split(Tail(Tail(string)))

\* '/'.join(comps), for components that are not empty
RECURSIVE join(_)
join(comps) ==
    IF Len(comps) <= 1 THEN comps
    ELSE <<Head(comps), "/">> \o join(Tail(comps))

\* string.replace('//', '/')
RECURSIVE replace(_)
replace(string) ==
    IF Len(string) < 2 THEN string
    ELSE IF string[1] = "/" /\ string[2] = "/"
    THEN <<"/">> \o replace(SubSeq(string, 3, Len(string)))
    ELSE <<Head(string)>> \o replace(Tail(string))

\* the loop of os.path.normpath over the components, from the i-th on
RECURSIVE normpath_comps(_, _, _, _)
normpath_comps(comps, i, new_comps, initial_slashes) ==
    IF i > Len(comps) THEN new_comps
    ELSE LET comp == comps[i]
             n == Len(new_comps)
         IN  IF comp \in {"", "."}
             THEN normpath_comps(comps, i + 1, new_comps, initial_slashes)
             ELSE IF \/ comp # ".."
                     \/ (initial_slashes = 0 /\ n = 0)
                     \/ (n > 0 /\ new_comps[n] = "..")
             THEN normpath_comps(comps, i + 1, Append(new_comps, comp), initial_slashes)
             ELSE IF n > 0
             THEN normpath_comps(comps, i + 1, SubSeq(new_comps, 1, n - 1), initial_slashes)
             ELSE normpath_comps(comps, i + 1, new_comps, initial_slashes)

\* os.path.normpath of a POSIX host
os_path_normpath(path) ==
    IF path = <<>> THEN <<".">>
    ELSE LET initial_slashes ==
                 IF ~startswith(path, <<"/">>) THEN 0
                 ELSE IF startswith(path, <<"/", "/">>) /\ ~startswith(path, <<"/", "/", "/">>)
                 THEN 2
                 ELSE 1
             joined == join(normpath_comps(split(path), 1, <<>>, initial_slashes))
             res == [i \in 1..initial_slashes |-> "/"] \o joined
         IN  IF res = <<>> THEN <<".">> ELSE res

\* utils.normpath
normpath(path) == replace(os_path_normpath(path))

\* os.path.isabs
isabs(path) == startswith(path, <<"/">>)

\* Initramfs.__normalize with /usr tested before /usr/local
normalize_usr_first(path) ==
    LET p == normpath(path)
    IN  IF ~isabs(p) THEN [e |-> "ValueError", path |-> p]
        ELSE IF startswith(p, <<"/", "usr", "/">>)
        THEN [e |-> "", path |-> removeprefix(p, <<"/", "usr">>)]
        ELSE IF startswith(p, <<"/", "usr", "/", "local", "/">>)
        THEN [e |-> "", path |-> removeprefix(p, <<"/", "usr", "/", "local">>)]
        ELSE [e |-> "", path |-> p]

\* Initramfs.__normalize: the exception raised ("" if none) and the path
normalize(path) ==
    LET p == normpath(path)
    IN  IF ~isabs(p) THEN [e |-> "ValueError", path |-> p]
        ELSE IF startswith(p, <<"/", "usr", "/", "local", "/">>)
        THEN [e |-> "", path |-> removeprefix(p, <<"/", "usr", "/", "local">>)]
        ELSE IF startswith(p, <<"/", "usr", "/">>)
        THEN [e |-> "", path |-> removeprefix(p, <<"/", "usr">>)]
        ELSE [e |-> "", path |-> p]

\* Initramfs.__contains__
contains(its, path) == \E i \in 1..Len(its) : path \in its[i].dests

\* Initramfs.mkdir(path, mode, parents), with the store's user and group
RECURSIVE mkdir(_, _, _, _)
mkdir(its, path, mode, parents) ==
    LET r == IF parents /\ ~contains(its, dirname(path))
             THEN mkdir(its, dirname(path), mode, TRUE)
             ELSE [items |-> its, e |-> ""]
    IN  IF r.e # "" THEN r
        ELSE add_item_run(r.items, Directory(mode, 0, 0, path))

\* the string of the absolute path through names
RECURSIVE Absolute(_)
Absolute(names) ==
    IF names = <<>> THEN <<>>
    ELSE <<"/", Head(names)>> \o Absolute(Tail(names))

\* the names of a string, in order
RECURSIVE names_of(_)
names_of(string) ==
    IF string = <<>> THEN <<>>
    ELSE IF Head(string) = "/" THEN names_of(Tail(string))
    ELSE <<Head(string)>> \o names_of(Tail(string))

\* Initramfs.add_file(src, dest, mode) of a source that is no ELF file and
\* whose content hashes to data_hash; dest is a string, src the names of the
\* source's absolute path
add_file(its, src, dest, mode, data_hash) ==
    LET n == normalize(IF dest = <<>> THEN Absolute(src) ELSE dest)
    IN  IF n.e # "" THEN [items |-> its, e |-> n.e, new |-> <<>>]
        ELSE add_item_run(its, File(mode, 0, 0, {names_of(n.path)}, src, data_hash))

(***************************************************************************)
(* The CPIO list.  A line is kept as the record of its fields, in the      *)
(* order gen_init_cpio reads them: type, name, location (the source of a   *)
(* file, the target of a link), mode, uid, gid, then the hard links of a   *)
(* file or the device type and numbers of a node.                          *)
(***************************************************************************)
\* the names of the model, as str orders them
NameOrder ==
    << "[", "a", "b", "bin", "busybox", "c", "cat", "conf", "console", "cut",
       "depmod", "dev", "echo", "env", "etc", "ext4", "f", "findfs", "init",
       "init.sh", "k", "kbd_mode", "kernel", "keymap.bmap", "kill", "kmsg",
       "lib", "lib32", "lib64", "libz", "linuxrc", "loadkmap", "local",
       "lvm", "mnt", "modprobe", "modules", "modules.builtin",
       "modules.builtin.modinfo", "modules.order", "mount", "null", "opt",
       "proc", "root", "run", "sbin", "src", "switch_root", "sync", "sys",
       "test", "tmp", "tty", "umount", "uname", "usr" >>

NameRank == [n \in Range(NameOrder) |-> CHOOSE i \in 1..Len(NameOrder) : NameOrder[i] = n]

NameLess(a, b) == NameRank[a] < NameRank[b]

\* p < q for the strings of two paths (no name of the model goes on with a
\* character below '/' after another name)
RECURSIVE PathLess(_, _)
PathLess(p, q) ==
    IF p = <<>> THEN q # <<>>
    ELSE IF q = <<>> THEN FALSE
    ELSE IF Head(p) = Head(q) THEN PathLess(Tail(p), Tail(q))
    ELSE NameLess(Head(p), Head(q))

\* sorted(paths)
RECURSIVE sorted(_)
sorted(paths) ==
    IF paths = {} THEN <<>>
    ELSE LET first == CHOOSE p \in paths : \A q \in paths \ {p} : PathLess(p, q)
         IN  <<first>> \o sorted(paths \ {first})

Line(type, name, location, mode, uid, gid, links, dev_type, maj, min) ==
    [type |-> type, name |-> name, location |-> location, mode |-> mode,
     uid |-> uid, gid |-> gid, links |-> links, dev_type |-> dev_type,
     maj |-> maj, min |-> min]

\* Item.build_to_cpio_list of File, Directory, Node and Symlink
item_build_to_cpio_list(self) ==
    IF self.class = "File"
    THEN LET dests == sorted(self.dests)
         IN  Line("file", Head(dests), self.src, self.mode, self.user,
                  self.group, Tail(dests), "", 0, 0)
    ELSE LET dest == CHOOSE d \in self.dests : TRUE
         IN  IF self.class = "Directory"
             THEN Line("dir", dest, <<>>, self.mode, self.user, self.group,
                       <<>>, "", 0, 0)
             ELSE IF self.class = "Node"
             THEN Line("nod", dest, <<>>, self.mode, self.user, self.group,
                       <<>>, self.nodetype, self.major, self.minor)
             ELSE Line("slink", dest, self.target, self.mode, self.user,
                       self.group, <<>>, "", 0, 0)

\* Initramfs.build_to_cpio_list: the lines written to dest
build_to_cpio_list(its) ==
    [i \in 1..Len(its) |-> item_build_to_cpio_list(its[i])]

(***************************************************************************)
(* Initramfs.__init__(user=0, group=0, kernels={"k"}), that is __mklayout. *)
(* host tells what /lib, /lib32 and /lib64 are on the building host: a     *)
(* symbolic link ("link"), a directory ("dir") or absent ("none").         *)
(***************************************************************************)
Hosts == [{"lib", "lib32", "lib64"} -> {"link", "dir", "none"}]

\* for libdir in ["/lib", "/lib32", "/lib64"]: the item added for one libdir
\* (the modes are 0o777 and 0o755)
libdir_item(host, libdir) ==
    IF host[libdir] = "link"
    THEN <<Symlink(511, 0, 0, <<libdir>>, <<"usr", libdir>>)>>
    ELSE IF host[libdir] = "dir"
    THEN <<Directory(493, 0, 0, <<libdir>>)>>
    ELSE <<>>

\* the items __mklayout hands to add_item before the kernel modules files,
\* in order (the modes are 0o755, 0o600, 0o666 and 0o644)
base_layout(host) ==
    << Directory(493, 0, 0, <<"bin">>), Directory(493, 0, 0, <<"dev">>),
       Directory(493, 0, 0, <<"etc">>), Directory(493, 0, 0, <<"mnt">>),
       Directory(493, 0, 0, <<"proc">>), Directory(493, 0, 0, <<"root">>),
       Directory(493, 0, 0, <<"run">>), Directory(493, 0, 0, <<"sbin">>),
       Directory(493, 0, 0, <<"sys">>) >>
    \o libdir_item(host, "lib") \o libdir_item(host, "lib32")
    \o libdir_item(host, "lib64")
    \o << Node(384, 0, 0, <<"dev", "console">>, "c", 5, 1),
          Node(438, 0, 0, <<"dev", "tty">>, "c", 5, 0),
          Node(438, 0, 0, <<"dev", "null">>, "c", 1, 3),
          Node(420, 0, 0, <<"dev", "kmsg">>, "c", 1, 11) >>

\* add_item on each element of news from the i-th on, until one raises
RECURSIVE add_items(_, _, _)
add_items(its, news, i) ==
    IF i > Len(news) THEN [items |-> its, e |-> ""]
    ELSE LET r == add_item_run(its, news[i])
         IN  IF r.e # "" THEN r ELSE add_items(r.items, news, i + 1)

\* add_file on each of the names of the directory kmod_dir of the host,
\* with mode 0o640, from the i-th on, until one raises
RECURSIVE add_kmod_files(_, _, _, _)
add_kmod_files(its, kmod_dir, names, i) ==
    IF i > Len(names) THEN [items |-> its, e |-> ""]
    ELSE LET r == add_file(its, kmod_dir \o <<names[i]>>, <<>>, 416, names[i])
         IN  IF r.e # "" \/ i = Len(names) THEN r
             ELSE add_kmod_files(r.items, kmod_dir, names, i + 1)

\* the files of the kernel are three different files of the host: each
\* file's name stands for the hash of its content
mklayout(host) ==
    LET kmod_dir == <<"lib", "modules", "k">>
        r1 == add_items(<<Directory(493, 0, 0, <<>>)>>, base_layout(host), 1)
        r2 == IF r1.e # "" THEN r1 ELSE mkdir(r1.items, kmod_dir, 493, TRUE)
    IN  IF r2.e # "" THEN r2
        ELSE add_kmod_files(r2.items, kmod_dir,
                 <<"modules.order", "modules.builtin", "modules.builtin.modinfo">>, 1)

(***************************************************************************)
(* The building host and the configuration of cmkcpiolist.                 *)
(***************************************************************************)
\* initramfs.SHELL_SPECIAL_BUILTIN and initramfs.SHELL_RESERVED_WORDS
SHELL_SPECIAL_BUILTIN ==
    {"break", ":", "continue", ".", "eval", "exec", "exit", "export",
     "readonly", "return", "set", "shift", "times", "trap", "unset"}

SHELL_RESERVED_WORDS ==
    {"!", "{", "}", "case", "do", "done", "elif", "else", "esac", "fi", "for",
     "if", "in", "then", "until", "while"}

\* init.BUSYBOX_COMMON_DEPS, BUSYBOX_KEYMAP_DEPS and BUSYBOX_KMOD_DEPS
BUSYBOX_COMMON_DEPS ==
    {"[", "cat", "cut", "echo", "env", "exec", "exit", "export", "kill",
     "mount", "return", "set", "shift", "switch_root", "sync", "test",
     "umount", "uname"}

BUSYBOX_KEYMAP_DEPS == {"loadkmap", "kbd_mode"}

BUSYBOX_KMOD_DEPS == {"depmod", "modprobe"}

\* the lines of 'busybox --list-full' of a busybox built with every applet
\* the init script may need, and of one built without uname, switch_root,
\* and findfs
FullApplets ==
    << <<"bin", "/", "busybox">>, <<"usr", "/", "bin", "/", "[">>,
       <<"bin", "/", "cat">>, <<"usr", "/", "bin", "/", "cut">>,
       <<"sbin", "/", "depmod">>, <<"bin", "/", "echo">>,
       <<"usr", "/", "bin", "/", "env">>, <<"sbin", "/", "findfs">>,
       <<"bin", "/", "kbd_mode">>, <<"bin", "/", "kill">>,
       <<"linuxrc">>, <<"sbin", "/", "loadkmap">>,
       <<"sbin", "/", "modprobe">>, <<"bin", "/", "mount">>,
       <<"sbin", "/", "switch_root">>, <<"bin", "/", "sync">>,
       <<"usr", "/", "bin", "/", "test">>, <<"bin", "/", "umount">>,
       <<"bin", "/", "uname">> >>

SmallApplets ==
    << <<"usr", "/", "bin", "/", "[">>, <<"bin", "/", "cat">>,
       <<"usr", "/", "bin", "/", "cut">>, <<"sbin", "/", "depmod">>,
       <<"bin", "/", "echo">>, <<"usr", "/", "bin", "/", "env">>,
       <<"bin", "/", "kbd_mode">>, <<"bin", "/", "kill">>,
       <<"sbin", "/", "loadkmap">>, <<"sbin", "/", "modprobe">>,
       <<"bin", "/", "mount">>, <<"bin", "/", "sync">>,
       <<"usr", "/", "bin", "/", "test">>, <<"bin", "/", "umount">> >>

\* the hosts a build runs on: what /lib, /lib32 and /lib64 are, and the
\* lines 'busybox --list-full' prints
BuildHosts ==
    [libdirs : {[d \in {"lib", "lib32", "lib64"} |-> k] : k \in {"link", "dir"}},
     applets : {FullApplets, SmallApplets}]

\* bin.find_exec(executable): the names of the path the executable is found
\* at on the host (busybox in /bin, everything else in /usr/bin); its
\* destination is that path
find_exec(executable) ==
    IF executable = "busybox" THEN <<"bin", "busybox">>
    ELSE <<"usr", "bin", executable>>

\* bin.find_lib(lib): libraries are found in /usr/lib
find_lib(lib) == <<"usr", "lib", lib>>

\* bin.find_kmod(module, "k"): modules are found in /lib/modules/k/kernel
find_kmod(module) == <<"lib", "modules", "k", "kernel", module>>

\* initramfs.busybox_get_applets
busybox_get_applets(h) == [i \in 1..Len(h.applets) |-> <<"/">> \o h.applets[i]]

\* os.path.basename of a string
basename(string) == IF string[Len(string)] = "/" THEN "" ELSE string[Len(string)]

\* entry.Config, as read_config makes it: files is a set of (src, dest) with
\* dest None (<<>>) here, libs and execs are sets of names, busybox a set of
\* commands, keymap is None (FALSE) or set, modules is a list of names
Configs ==
    [files : SUBSET {<<"etc", "conf">>},
     libs : SUBSET {"libz"},
     execs : SUBSET {"cat", "lvm"},
     busybox : SUBSET {"findfs"},
     keymap : BOOLEAN,
     modules : {<<>>, <<"ext4">>}]

\* the content hash of a file of the host: its name, every file is different
hash_file(src) == src[Len(src)]

\* Initramfs.add_library(src) and Initramfs.add_executable(src), with the
\* mode of the source (0o755)
add_library(its, src) ==
    add_file(its, find_lib(src), <<>>, 493, hash_file(find_lib(src)))

add_executable(its, src) ==
    add_file(its, find_exec(src), <<>>, 493, hash_file(find_exec(src)))

\* Initramfs.add_kmod(module) of a module without dependencies, for the one
\* kernel of the store (the mode of the source is 0o644)
add_kmod(its, module) ==
    LET kmod == find_kmod(module)
        r == mkdir(its, dirname(kmod), 493, TRUE)
    IN  IF r.e # "" THEN r
        ELSE add_file(r.items, kmod, <<>>, 420, hash_file(kmod))

RECURSIVE add_kmods(_, _, _)
add_kmods(its, modules, i) ==
    IF i > Len(modules) THEN [items |-> its, e |-> "", new |-> <<>>]
    ELSE LET r == add_kmod(its, modules[i])
         IN  IF r.e # "" THEN r ELSE add_kmods(r.items, modules, i + 1)

(***************************************************************************)
(* cmkcpiolist: entry_cmkcpiolist constructs the Initramfs and calls       *)
(* _build_initramfs, then build_to_cpio_list.  A for loop over a set       *)
(* visits its elements in an order the run decides (the hash of a str      *)
(* differs from one interpreter run to the next).                          *)
(***************************************************************************)
\* the first of the loops of _build_initramfs over files, libs and execs,
\* from the k-th on, that has something to visit
RECURSIVE first_loop(_, _)
first_loop(cfg, k) ==
    LET loops == <<"files", "libs", "execs">>
    IN  IF k > Len(loops) THEN [bpc |-> "rest", todo |-> {}]
        ELSE IF cfg[loops[k]] # {} THEN [bpc |-> loops[k], todo |-> cfg[loops[k]]]
        ELSE first_loop(cfg, k + 1)

entry_cmkcpiolist ==
    /\ bpc \in {"idle", "done"}
    /\ Len(cpio) < MaxRuns
    /\ LET r == mklayout(build_host.libdirs)
           f == first_loop(config, 1)
       IN  /\ r.e = ""
           /\ items' = r.items
           /\ new_item' = r.new
           /\ bpc' = f.bpc
           /\ todo' = f.todo
    /\ raised' = ""
    /\ ai' = 0
    /\ UNCHANGED <<dvars, nvars, xvars, nadds, build_host, config, cpio>>

\* one iteration of the k-th loop: r is what adding the element e gave
build_loop(k, e, r) ==
    /\ items' = r.items
    /\ new_item' = r.new
    /\ raised' = r.e
    /\ IF r.e # "" THEN bpc' = "raised" /\ todo' = {}
       ELSE IF todo # {e} THEN bpc' = bpc /\ todo' = todo \ {e}
       ELSE LET f == first_loop(config, k + 1)
            IN  bpc' = f.bpc /\ todo' = f.todo
    /\ UNCHANGED <<dvars, nvars, xvars, nadds, build_host, config, ai, cpio>>

\* for src, dest in config.files: initramfs.add_file(src, dest)
\* (the mode of the source is 0o644)
build_files ==
    /\ bpc = "files"
    /\ \E e \in todo : build_loop(1, e, add_file(items, e, <<>>, 420, hash_file(e)))

\* for src, dest in config.libs: initramfs.add_library(src, dest)
build_libs ==
    /\ bpc = "libs"
    /\ \E e \in todo : build_loop(2, e, add_library(items, e))

\* for src, dest in config.execs: initramfs.add_executable(src, dest)
build_execs ==
    /\ bpc = "execs"
    /\ \E e \in todo : build_loop(3, e, add_executable(items, e))

\* the keymap, the kernel modules and /init
\* _build_initramfs after the three loops, step by step: each step is
\* skipped once an exception is on its way
build_keymap(its, cfg, new) ==
    IF cfg.keymap
    THEN add_file(its, <<"tmp", "keymap.bmap">>,
                  <<"/", "root", "/", "keymap.bmap">>, 420, "keymap.bmap")
    ELSE [items |-> its, e |-> "", new |-> new]

build_modules(r, cfg) ==
    IF r.e # "" THEN r ELSE add_kmods(r.items, cfg.modules, 1)

build_init(r) ==
    IF r.e # "" THEN r
    ELSE add_file(r.items, <<"tmp", "init.sh">>, <<"/", "init">>, 493, "init.sh")

build_rest ==
    /\ bpc = "rest"
    /\ \E r \in {build_init(build_modules(build_keymap(items, config, new_item),
                                          config))} :
           /\ items' = r.items
           /\ raised' = r.e
           /\ new_item' = r.new
           /\ bpc' = IF r.e # "" THEN "raised" ELSE "busybox"
    /\ UNCHANGED <<dvars, nvars, xvars, nadds, build_host, config, todo, ai, cpio>>

\* busybox_deps, the needed argument of add_busybox (the store has a kernel)
needed ==
    config.busybox \cup BUSYBOX_COMMON_DEPS
    \cup (IF config.keymap THEN BUSYBOX_KEYMAP_DEPS ELSE {})
    \cup BUSYBOX_KMOD_DEPS

\* the local applets of add_busybox once the loop over the applets is over
applets ==
    SHELL_SPECIAL_BUILTIN \cup SHELL_RESERVED_WORDS
    \cup {basename(a) : a \in Range(busybox_get_applets(build_host))}

\* where add_busybox goes on from the i-th applet: the visits of needed that
\* find the command in applets do nothing and are left out
add_busybox_from(i) ==
    IF i <= Len(build_host.applets) THEN [bpc |-> "applets", todo |-> {}]
    ELSE IF needed \ applets # {} THEN [bpc |-> "needed", todo |-> needed \ applets]
    ELSE [bpc |-> "list", todo |-> {}]

\* add_busybox up to its loop over the applets: busybox itself is added
add_busybox ==
    /\ bpc = "busybox"
    /\ LET r == add_executable(items, "busybox")
           f == add_busybox_from(1)
       IN  /\ items' = r.items
           /\ raised' = r.e
           /\ new_item' = r.new
           /\ bpc' = IF r.e # "" THEN "raised" ELSE f.bpc
           /\ todo' = IF r.e # "" THEN {} ELSE f.todo
    /\ ai' = 1
    /\ UNCHANGED <<dvars, nvars, xvars, nadds, build_host, config, cpio>>

\* the body of the loop over the applets without its try: what add_file
\* raises leaves add_busybox
add_busybox_applet_run_untried(its, applet) ==
    LET r == add_file(its, find_exec("busybox"), applet, 493,
                      hash_file(find_exec("busybox")))
    IN  [items |-> r.items, e |-> r.e, raised |-> r.e, new |-> r.new]

\* the body of the loop over the applets: the store, the exception that
\* leaves add_busybox ("" if none), the one add_file raised, the item
add_busybox_applet_run(its, applet) ==
    LET r == add_file(its, find_exec("busybox"), applet, 493,
                      hash_file(find_exec("busybox")))
    IN  [items |-> r.items, e |-> IF r.e \in MergeError THEN "" ELSE r.e,
         raised |-> r.e, new |-> r.new]

add_busybox_applet ==
    /\ bpc = "applets"
    /\ LET r == add_busybox_applet_run(items, busybox_get_applets(build_host)[ai])
           f == add_busybox_from(ai + 1)
       IN  /\ items' = r.items
           /\ raised' = r.raised
           /\ new_item' = r.new
           /\ bpc' = IF r.e # "" THEN "raised" ELSE f.bpc
           /\ todo' = IF r.e # "" THEN {} ELSE f.todo
    /\ ai' = ai + 1
    /\ UNCHANGED <<dvars, nvars, xvars, nadds, build_host, config, cpio>>

\* for dep in needed: if dep not in applets: self.add_executable(dep)
add_busybox_needed ==
    /\ bpc = "needed"
    /\ \E dep \in todo :
          LET r == add_executable(items, dep)
          IN  /\ items' = r.items
              /\ raised' = r.e
              /\ new_item' = r.new
              /\ bpc' = IF r.e # "" THEN "raised"
                        ELSE IF todo # {dep} THEN "needed" ELSE "list"
              /\ todo' = IF r.e # "" THEN {} ELSE todo \ {dep}
    /\ UNCHANGED <<dvars, nvars, xvars, nadds, build_host, config, ai, cpio>>

\* initramfs.build_to_cpio_list(cpiolist)
write_cpio_list ==
    /\ bpc = "list"
    /\ cpio' = Append(cpio, build_to_cpio_list(items))
    /\ bpc' = "done"
    /\ UNCHANGED <<dvars, nvars, xvars, svars, build_host, config, todo, ai>>

(***************************************************************************)
(* The callers of add_item: what is being added to the image after its     *)
(* construction.  Files come from two sources with different contents      *)
(* (hashes "h1" and "h2").                                                 *)
(***************************************************************************)
NewItems ==
    {File(493, 0, 0, {d}, <<"src", h>>, h) :
        d \in {<<"bin", "a">>, <<"opt", "b">>}, h \in {"h1", "h2"}}
    \cup {File(493, 0, 0, {<<"bin", "a">>, <<"opt", "b">>}, <<"src", "h1">>, "h1"),
          File(493, 0, 0, {<<"bin", "a", "c">>}, <<"src", "h2">>, "h2"),
          File(493, 0, 0, {<<"lib64", "f">>}, <<"src", "h2">>, "h2"),
          File(493, 0, 0, {<<"dev", "null">>}, <<"src", "h1">>, "h1"),
          Directory(493, 0, 0, <<"opt">>),
          Directory(493, 0, 0, <<"bin">>),
          Directory(448, 0, 0, <<"bin">>),
          Directory(493, 0, 0, <<>>),
          Symlink(511, 0, 0, <<"opt">>, <<"bin">>)}

\* add_item that changes the store before it looks for what is wrong: the
\* item is merged or appended, and the error is raised afterwards
add_item_applied(new) ==
    /\ nadds < MaxAdds
    /\ LET r == add_item_run(items, new)
           mergeables == {i \in 1..Len(items) : is_mergeable(items[i], new)}
       IN  /\ items' = IF r.e = "" THEN r.items
                       ELSE IF mergeables # {}
                       THEN [items EXCEPT ![CHOOSE i \in mergeables : TRUE] = merge(@, new)]
                       ELSE Append(items, new)
           /\ raised' = r.e
    /\ new_item' = new
    /\ nadds' = nadds + 1
    /\ UNCHANGED <<dvars, ovars>>

add_item(new) ==
    /\ nadds < MaxAdds
    /\ LET r == add_item_run(items, new)
       IN  /\ items' = r.items
           /\ raised' = r.e
    /\ new_item' = new
    /\ nadds' = nadds + 1
    /\ UNCHANGED <<dvars, ovars>>

(***************************************************************************)
(* The specification of the Data graph and the emission pass.              *)
(***************************************************************************)
Configure ==
    \E self, dep \in Data :
        \/ add_dep(self, dep)
        \/ add_load_dep(self, dep)

Finalize == \E self \in Data : set_final(self)

\* the configuration has no keymap and no kernel module
Emit == \E r \in Data : \E ms \in MountLists(r) : mkinit(r, ms, "None", <<>>)

Next ==
    \/ Configure
    \/ Finalize
    \/ Emit
    \/ mkinit_next
    \/ pre_load
    \/ pre_load_deps
    \/ write_load
    \/ post_load_rev
    \/ post_load_lneed
    \/ pre_unload
    \/ write_unload
    \/ post_unload

\* cmkinit writes the init script alone: no Initramfs is constructed
NoStore ==
    /\ items = <<>>
    /\ new_item = <<>>
    /\ raised = ""
    /\ nadds = 0

\* no call of Initramfs.__normalize is looked at
NoNormalize ==
    /\ norm_path = <<>>
    /\ normalized = <<>>

\* cmkcpiolist is not run
NoBuild ==
    /\ build_host = <<>>
    /\ config = <<>>
    /\ bpc = "idle"
    /\ todo = {}
    /\ ai = 0
    /\ cpio = <<>>

\* the command-line parser of /init is not run
NoCmdline ==
    /\ proc_cmdline = <<>>
    /\ words = <<>>
    /\ wi = 0
    /\ cpc = "off"
    /\ env = <<>>

\* no MdData object is loaded on its own
NoMd ==
    /\ md = <<>>
    /\ md_loaded = FALSE
    /\ md_out = <<>>

\* no function is called on its own
NoCall ==
    /\ called = ""
    /\ args = <<>>
    /\ result = <<>>

Init ==
    DataInit /\ NoStore /\ NoNormalize /\ NoBuild /\ NoCmdline /\ NoMd /\ NoCall

vars == <<dvars, svars, ovars>>

Spec == Init /\ [][Next]_vars

(***************************************************************************)
(* The specification of the sections of the script: smaller graphs of      *)
(* objects that all differ, more mount points, and configurations with a   *)
(* keymap and kernel modules.                                              *)
(***************************************************************************)
ConfigureScript == nedges < ScriptEdges /\ Configure

EmitScript ==
    \E r \in Data : \E ms \in MountListsOf(r, ScriptMounts) :
        \E keymap \in {"None", "/root/keymap.bmap"} :
            \E modules \in {<<>>, <<"ext4", "dm_crypt">>} :
                mkinit(r, ms, keymap, modules)

ScriptNext ==
    \/ ConfigureScript
    \/ Finalize
    \/ EmitScript
    \/ mkinit_next
    \/ pre_load
    \/ pre_load_deps
    \/ write_load
    \/ post_load_rev
    \/ post_load_lneed
    \/ pre_unload
    \/ write_unload
    \/ post_unload

ScriptInit == Init /\ key = [n \in Data |-> n]

SpecScript == ScriptInit /\ [][ScriptNext]_vars

(***************************************************************************)
(* The specification of the item store: an Initramfs is constructed, then  *)
(* items are added to it.  No Data object exists.                          *)
(***************************************************************************)
NoData ==
    /\ DataInit
    /\ key = [n \in Data |-> n]

StoreInit ==
    /\ NoData
    /\ NoNormalize
    /\ NoBuild
    /\ NoCmdline
    /\ NoMd
    /\ NoCall
    /\ \E host \in Hosts :
          LET r == mklayout(host)
          IN  /\ r.e = ""
              /\ items = r.items
              /\ new_item = r.new
              /\ raised = ""
              /\ nadds = 0

StoreNext == \E new \in NewItems : add_item(new)

SpecStore == StoreInit /\ [][StoreNext]_vars

(***************************************************************************)
(* The specification of cmkcpiolist: the configuration and the host are    *)
(* given, the program is run, and run again.                               *)
(***************************************************************************)
BuildInit ==
    /\ NoData
    /\ NoStore
    /\ NoNormalize
    /\ NoCmdline
    /\ NoMd
    /\ NoCall
    /\ build_host \in BuildHosts
    /\ config \in Configs
    /\ bpc = "idle"
    /\ todo = {}
    /\ ai = 0
    /\ cpio = <<>>

BuildNext ==
    \/ entry_cmkcpiolist
    \/ build_files
    \/ build_libs
    \/ build_execs
    \/ build_rest
    \/ add_busybox
    \/ add_busybox_applet
    \/ add_busybox_needed
    \/ write_cpio_list

SpecBuild == BuildInit /\ [][BuildNext]_vars

(***************************************************************************)
(* The specification of destination normalization: Initramfs.__normalize   *)
(* is called on a string.                                                  *)
(***************************************************************************)
normalize_call ==
    /\ normalized = <<>>
    /\ normalized' = <<normalize(norm_path)>>
    /\ UNCHANGED <<dvars, svars, bvars, xvars, norm_path>>

NormalizeInit ==
    /\ NoData
    /\ NoStore
    /\ NoBuild
    /\ NoCmdline
    /\ NoMd
    /\ NoCall
    /\ norm_path \in Strings(MaxPathLen)
    /\ normalized = <<>>

SpecNormalize == NormalizeInit /\ [][normalize_call]_vars

(***************************************************************************)
(* The command-line parser do_cmdline writes into /init.  A string is a    *)
(* sequence of symbols: "=", ",", "*", " " and words that hold none of     *)
(* them.  A shell variable is <<>> when unset, <<value>> when set.         *)
(***************************************************************************)
\* the variables the parser and the code after it assign
EnvVars == {"INIT", "RD_DEBUG", "RD_QUIET", "RD_PANIC", "RD_BREAK_INIT",
            "RD_BREAK_MODULE", "RD_BREAK_ROOTFS", "RD_BREAK_MOUNT",
            "unknown_cmd", "PS4"}

\* the entries of the working directory of /init, the root of the
\* initramfs: the base layout and /init itself, in the order of a glob
RootEntries == <<"bin", "dev", "etc", "init", "lib", "mnt", "proc", "root",
                 "run", "sbin", "sys", "usr">>

\* shell pattern matching: "*" matches any string, a symbol matches itself
RECURSIVE pattern_match(_, _)
pattern_match(pattern, string) ==
    IF pattern = <<>> THEN string = <<>>
    ELSE IF Head(pattern) = "*"
    THEN \/ pattern_match(Tail(pattern), string)
         \/ string # <<>> /\ pattern_match(pattern, Tail(string))
    ELSE /\ string # <<>>
         /\ Head(string) = Head(pattern)
         /\ pattern_match(Tail(pattern), Tail(string))

\* pathname expansion of one field of an unquoted expansion: a field that
\* holds a "*" is replaced by the entries of the working directory it
\* matches, and left alone when it matches none
pathname_expansion(field) ==
    IF \A i \in 1..Len(field) : field[i] # "*" THEN <<field>>
    ELSE LET hits == SelectSeq(RootEntries,
                               LAMBDA entry : pattern_match(field, <<entry>>))
         IN  IF hits = <<>> THEN <<field>>
             ELSE [i \in 1..Len(hits) |-> <<hits[i]>>]

RECURSIVE expand_fields(_)
expand_fields(fields) ==
    IF fields = <<>> THEN <<>>
    ELSE pathname_expansion(Head(fields)) \o expand_fields(Tail(fields))

\* field splitting with IFS=',': each comma ends a field
RECURSIVE field_splitting(_, _)
field_splitting(string, field) ==
    IF string = <<>> THEN (IF field = <<>> THEN <<>> ELSE <<field>>)
    ELSE IF Head(string) = ","
    THEN <<field>> \o field_splitting(Tail(string), <<>>)
    ELSE field_splitting(Tail(string), Append(field, Head(string)))

\* ${cmdline#*=}: the string without its smallest prefix that ends in "="
RECURSIVE remove_smallest_prefix(_)
remove_smallest_prefix(string) ==
    IF \A i \in 1..Len(string) : string[i] # "=" THEN string
    ELSE IF Head(string) = "=" THEN Tail(string)
    ELSE remove_smallest_prefix(Tail(string))

\* the case statement on ${bpoint}
case_bpoint(e, bpoint) ==
    IF bpoint = <<"init">> THEN [e EXCEPT !["RD_BREAK_INIT"] = <<<<"true">>>>]
    ELSE IF bpoint \in {<<"module">>, <<"modules">>}
    THEN [e EXCEPT !["RD_BREAK_MODULE"] = <<<<"true">>>>]
    ELSE IF bpoint = <<"rootfs">>
    THEN [e EXCEPT !["RD_BREAK_ROOTFS"] = <<<<"true">>>>]
    ELSE IF bpoint \in {<<"mount">>, <<"mounts">>}
    THEN [e EXCEPT !["RD_BREAK_MOUNT"] = <<<<"true">>>>]
    ELSE e

\* for bpoint in ${cmdline#*=}
RECURSIVE for_bpoint(_, _)
for_bpoint(e, bpoints) ==
    IF bpoints = <<>> THEN e
    ELSE for_bpoint(case_bpoint(e, Head(bpoints)), Tail(bpoints))

\* the case statement on ${cmdline}, for a word that is not "--"
case_cmdline(e, cmdline) ==
    IF pattern_match(<<"init", "=", "*">>, cmdline)
    THEN [e EXCEPT !["INIT"] = <<remove_smallest_prefix(cmdline)>>]
    ELSE IF cmdline = <<"debug">> THEN [e EXCEPT !["RD_DEBUG"] = <<<<"true">>>>]
    ELSE IF cmdline = <<"quiet">> THEN [e EXCEPT !["RD_QUIET"] = <<<<"true">>>>]
    ELSE IF cmdline = <<"rd.break">>
    THEN [e EXCEPT !["RD_BREAK_ROOTFS"] = <<<<"true">>>>]
    ELSE IF pattern_match(<<"rd.break", "=", "*">>, cmdline)
    THEN for_bpoint(e, expand_fields(
             field_splitting(remove_smallest_prefix(cmdline), <<>>)))
    ELSE IF cmdline = <<"rd.debug">>
    THEN [e EXCEPT !["RD_DEBUG"] = <<<<"true">>>>]
    ELSE IF cmdline = <<"rd.panic">>
    THEN [e EXCEPT !["RD_PANIC"] = <<<<"true">>>>]
    ELSE IF cmdline = <<"rd.quiet">>
    THEN [e EXCEPT !["RD_QUIET"] = <<<<"true">>>>]
    ELSE [e EXCEPT !["unknown_cmd"] =
              IF e["unknown_cmd"] = <<>> THEN <<cmdline>>
              ELSE <<e["unknown_cmd"][1] \o <<" ">> \o cmdline>>]

\* $(cat /proc/cmdline): the tokens, each one after pathname expansion
cat_proc_cmdline ==
    /\ cpc = "start"
    /\ words' = expand_fields(proc_cmdline)
    /\ wi' = 1
    /\ cpc' = "for"
    /\ UNCHANGED <<dvars, svars, nvars, bvars, mvars, fvars, proc_cmdline, env>>

\* one turn of the for loop on a word that is not "--"
for_cmdline ==
    /\ cpc = "for"
    /\ wi <= Len(words)
    /\ words[wi] # <<"--">>
    /\ env' = case_cmdline(env, words[wi])
    /\ wi' = wi + 1
    /\ UNCHANGED <<dvars, svars, nvars, bvars, mvars, fvars, proc_cmdline, words, cpc>>

\* the turn of the for loop on "--": break
break_cmdline ==
    /\ cpc = "for"
    /\ wi <= Len(words)
    /\ words[wi] = <<"--">>
    /\ cpc' = "after"
    /\ UNCHANGED <<dvars, svars, nvars, bvars, mvars, fvars, proc_cmdline, words, wi,
                   env>>

\* the for loop has visited every word
done_cmdline ==
    /\ cpc = "for"
    /\ wi > Len(words)
    /\ cpc' = "after"
    /\ UNCHANGED <<dvars, svars, nvars, bvars, mvars, fvars, proc_cmdline, words, wi,
                   env>>

\* the lines after the loop: PS4 for the shell trace, unset unknown_cmd
\* (shell options and file descriptors are not shell variables)
after_cmdline ==
    /\ cpc = "after"
    /\ env' = [env EXCEPT
                  !["PS4"] = IF env["RD_DEBUG"] # <<>> /\ env["RD_QUIET"] = <<>>
                             THEN <<<<"+ $0:$LINENO: ">>>> ELSE @,
                  !["unknown_cmd"] = <<>>]
    /\ cpc' = "done"
    /\ UNCHANGED <<dvars, svars, nvars, bvars, mvars, fvars, proc_cmdline, words, wi>>

\* the words of the list of a rd.break= token
BreakWords == {"init", "module", "modules", "rootfs", "mount", "mounts", "*"}

\* the lists: words and commas, no two words side by side
RECURSIVE CsvLists(_)
CsvLists(n) ==
    IF n = 0 THEN {<<>>}
    ELSE CsvLists(n - 1) \cup
         {Append(l, s) : l \in CsvLists(n - 1), s \in {","}} \cup
         {Append(l, s) : l \in {k \in CsvLists(n - 1) :
                                    k = <<>> \/ k[Len(k)] = ","},
                         s \in BreakWords}

\* the tokens a kernel command line is made of
Tokens ==
    {<<"--">>, <<"debug">>, <<"quiet">>, <<"rd.debug">>, <<"rd.quiet">>,
     <<"rd.panic">>, <<"rd.break">>, <<"ro">>, <<"*">>,
     <<"init", "=", "/sbin/init">>, <<"init", "=", "/bin/sh", "=", "x">>}
    \cup {<<"rd.break", "=">> \o l : l \in CsvLists(MaxCsv)}

RECURSIVE Cmdlines(_)
Cmdlines(n) ==
    IF n = 0 THEN {<<>>}
    ELSE Cmdlines(n - 1) \cup
         {Append(l, t) : l \in Cmdlines(n - 1), t \in Tokens}

CmdlineInit ==
    /\ NoData
    /\ NoStore
    /\ NoNormalize
    /\ NoBuild
    /\ NoMd
    /\ NoCall
    /\ proc_cmdline \in Cmdlines(MaxTokens)
    /\ words = <<>>
    /\ wi = 0
    /\ cpc = "start"
    /\ env = [v \in EnvVars |-> <<>>]

CmdlineNext ==
    \/ cat_proc_cmdline
    \/ for_cmdline
    \/ break_cmdline
    \/ done_cmdline
    \/ after_cmdline

SpecCmdline == CmdlineInit /\ [][CmdlineNext]_vars

(***************************************************************************)
(* An MdData object loaded on its own.  Its sources are PathData and       *)
(* UuidData objects, whose own load and unload write nothing.  A string is *)
(* a sequence of symbols: " ", "'" and words.                              *)
(***************************************************************************)
\* the objects an array is built from
Sources == {[class |-> "UuidData", value |-> <<"aaaa">>],
            [class |-> "UuidData", value |-> <<"bbbb">>],
            [class |-> "PathData", value |-> <<"/dev/sda1">>],
            [class |-> "PathData", value |-> <<"/dev/my", " ", "disk">>]}

RECURSIVE SourceLists(_)
SourceLists(n) ==
    IF n = 0 THEN {<<>>}
    ELSE SourceLists(n - 1) \cup
         {Append(l, s) : l \in SourceLists(n - 1), s \in Sources}

\* MdData.__init__ raises ValueError when there is no source
MdObjects == [sources : SourceLists(MaxSources) \ {<<>>},
              name : {<<"0">>, <<"my", " ", "md">>}]

\* shlex.quote: a string of safe characters is left alone, any other is
\* put between single quotes (none of the strings here holds a quote)
quote(string) ==
    IF \A i \in 1..Len(string) : string[i] # " " THEN string
    ELSE <<"'">> \o string \o <<"'">>

\* the string MdData.load adds to its set for one source
source_arg(source) ==
    IF source.class = "UuidData"
    THEN <<"--uuid", " ">> \o quote(source.value) \o <<" ">>
    ELSE quote(source.value) \o <<" ">>

\* every order a Python set of strings can be iterated in
Orders(set) ==
    {o \in [1..Cardinality(set) -> set] :
        \A i, j \in 1..Cardinality(set) : o[i] = o[j] => i = j}

RECURSIVE concat(_)
concat(strings) ==
    IF strings = <<>> THEN <<>> ELSE Head(strings) \o concat(Tail(strings))

\* MdData.load: the sources are gathered in a set, and the set is written
MdData_load ==
    /\ md # <<>>
    /\ ~md_loaded
    /\ LET sources == {source_arg(md.sources[i]) : i \in 1..Len(md.sources)}
       IN  \E o \in Orders(sources) :
               md_out' = md_out \o
                   << <<"info", " ", "'", "Assembling MD RAID", " ">>
                          \o md.name \o <<"'">>,
                      <<"MDADM_NO_UDEV=1", " ", "mdadm", " ", "--assemble", " ">>
                          \o concat(o) \o quote(md.name)
                          \o <<" ", "||", " ", "die", " ">>
                          \o quote(<<"Failed to assemble MD RAID", " ">>
                                   \o md.name) >>
    /\ md_loaded' = TRUE
    /\ UNCHANGED <<dvars, svars, nvars, bvars, cvars, fvars, md>>

MdInit ==
    /\ NoData
    /\ NoStore
    /\ NoNormalize
    /\ NoBuild
    /\ NoCmdline
    /\ NoCall
    /\ md \in MdObjects
    /\ md_loaded = FALSE
    /\ md_out = <<>>

SpecMd == MdInit /\ [][MdData_load]_vars

(***************************************************************************)
(* The search of one dependency of an ELF file by _find_elf_deps_iter.  A  *)
(* directory is the list of its names.  The host has /lib and /usr/lib and *)
(* no /lib64 or /lib32.                                                    *)
(***************************************************************************)
\* the directories a search path can name
LibDirs == {<<"opt", "lib">>, <<"usr", "lib">>, <<"lib">>}

\* _get_default_libdirs: lib64, lib, lib32 under / and /usr, those that exist
get_default_libdirs == << <<"lib">>, <<"usr", "lib">> >>

\* _get_libdir: /lib64 and /lib32 do not exist
get_libdir(arch) == <<"lib">>

RECURSIVE DirLists(_)
DirLists(n) ==
    IF n = 0 THEN {<<>>}
    ELSE DirLists(n - 1) \cup
         {Append(l, d) : l \in DirLists(n - 1), d \in LibDirs}

\* the ELF file (DT_RPATH, DT_RUNPATH, DF_1_NODEFLIB, one DT_NEEDED that is
\* not absolute), the environment (LD_LIBRARY_PATH, ld.so.conf) and what
\* each directory holds under the name of the dependency
ElfCalls ==
    [rpaths : DirLists(MaxDirs), ld_library_path : DirLists(MaxDirs),
     runpaths : DirLists(MaxDirs), ld_so_conf : DirLists(MaxDirs),
     nodeflib : BOOLEAN, dep : {"libz.so"},
     libs : [LibDirs -> {"none", "compatible", "incompatible"}]]

\* search_paths_base
search_paths_base(a) ==
    a.rpaths \o a.ld_library_path \o a.runpaths \o a.ld_so_conf
        \o get_default_libdirs

\* the loop over search_paths for one dependency
RECURSIVE find_elf_dep(_, _)
find_elf_dep(a, search_paths) ==
    IF search_paths = <<>>
    THEN [e |-> "FileNotFoundError", found_path |-> <<>>, dest |-> <<>>]
    ELSE LET found_dir  == Head(search_paths)
             found_path == found_dir \o <<a.dep>>
         IN  IF a.nodeflib /\ found_dir \in Range(get_default_libdirs)
             THEN find_elf_dep(a, Tail(search_paths))
             ELSE IF a.libs[found_dir] # "compatible"
             THEN find_elf_dep(a, Tail(search_paths))
             ELSE [e |-> "", found_path |-> found_path,
                   dest |-> IF found_dir \in Range(a.rpaths \o a.runpaths)
                            THEN found_path
                            ELSE get_libdir(64) \o <<a.dep>>]

find_elf_deps_iter ==
    /\ called = "_find_elf_deps_iter"
    /\ result = <<>>
    /\ result' = <<find_elf_dep(args, search_paths_base(args))>>
    /\ UNCHANGED <<dvars, svars, nvars, bvars, cvars, mvars, called, args>>

\* every specification of a function called on its own starts like this
NoState ==
    /\ NoData
    /\ NoStore
    /\ NoNormalize
    /\ NoBuild
    /\ NoCmdline
    /\ NoMd
    /\ result = <<>>

ElfInit ==
    /\ NoState
    /\ called = "_find_elf_deps_iter"
    /\ args \in ElfCalls

SpecElf == ElfInit /\ [][find_elf_deps_iter]_vars

(***************************************************************************)
(* entry.read_config(config_file).  A string is the sequence of its        *)
(* symbols, as for paths: the identifier 'UUID=x' is <<"UUID=", "x">>, the *)
(* path '/p' is <<"/", "p">>.  data_dic is a Python dict: its keys in      *)
(* insertion order and the object each key maps to.  An object is referred *)
(* to by its key of data_dic (the sections of the configurations read have *)
(* different names and an identifier is never the name of a section, so    *)
(* two different objects are never equal and 'in' is membership of the     *)
(* key).  _needed_by is left out: read_config never reads it.              *)
(***************************************************************************)
\* Data.__init__, then what the constructor of the subclass sets
DataObject(class, value, partition, execs, libs, busybox, kmods, nd) ==
    [class |-> class, value |-> value, partition |-> partition,
     files |-> {}, execs |-> execs, libs |-> libs, busybox |-> busybox,
     kmods |-> kmods, need |-> nd, lneed |-> <<>>, is_final |-> FALSE]

\* an (executable, None) or (library, None) pair; None is the empty string
NoDest(src) == <<<<src>>, <<>>>>

\* a (module, ()) pair
NoParams(module) == <<module, <<>>>>

PathData(datapath) ==
    DataObject("PathData", datapath, FALSE, {}, {}, {}, {}, <<>>)

UuidData(uuid, partition) ==
    DataObject("UuidData", uuid, partition,
               IF partition THEN {NoDest("findfs")} ELSE {}, {},
               IF partition THEN {} ELSE {<<"findfs">>}, {}, <<>>)

LabelData(label, partition) ==
    DataObject("LabelData", label, partition,
               IF partition THEN {NoDest("findfs")} ELSE {}, {},
               IF partition THEN {} ELSE {<<"findfs">>}, {}, <<>>)

\* LuksData(source, name) without key and header
LuksData(source, name) ==
    DataObject("LuksData", name, FALSE, {NoDest("cryptsetup")},
               {NoDest("libgcc_s.so.1")}, {}, {NoParams("dm-crypt")}, <<source>>)

LvmData(vg_name, lv_name) ==
    DataObject("LvmData", <<vg_name, lv_name>>, FALSE, {NoDest("lvm")},
               {}, {}, {}, <<>>)

\* MountData(source, mountpoint, filesystem) for the filesystem ext4
MountData(source, mountpoint, filesystem) ==
    DataObject("MountData", mountpoint, FALSE,
               IF filesystem = "ext4"
               THEN {NoDest("fsck.ext4"), NoDest("e2fsck")} ELSE {},
               {}, {<<"fsck">>, <<"[">>, <<"reboot">>, <<"mkdir">>, <<"mount">>,
                    <<"umount">>},
               IF filesystem = "ext4" THEN {NoParams("ext4")} ELSE {},
               <<source>>)

\* dict.get(k) is None
IsNone(data_dic, k) == k \notin DOMAIN data_dic.at

\* data_dic[k] = v
SetItem(data_dic, k, v) ==
    [keys |-> IF IsNone(data_dic, k) THEN Append(data_dic.keys, k)
              ELSE data_dic.keys,
     at |-> (k :> v) @@ data_dic.at]

\* one prefixed branch of find_data: the prefix is removed and the object
\* made when data_dic has nothing under what remains
find_data_branch(data_dic, data_str, new) ==
    [data_dic |-> IF IsNone(data_dic, data_str)
                  THEN SetItem(data_dic, data_str, new) ELSE data_dic,
     data_str |-> data_str]

\* the if / elif chain of find_data
find_data_chain(data_dic, data_str) ==
    IF startswith(data_str, <<"PATH=">>)
    THEN find_data_branch(data_dic, removeprefix(data_str, <<"PATH=">>),
                          PathData(removeprefix(data_str, <<"PATH=">>)))
    ELSE IF startswith(data_str, <<"UUID=">>)
    THEN find_data_branch(data_dic, removeprefix(data_str, <<"UUID=">>),
                          UuidData(removeprefix(data_str, <<"UUID=">>), FALSE))
    ELSE IF startswith(data_str, <<"LABEL=">>)
    THEN find_data_branch(data_dic, removeprefix(data_str, <<"LABEL=">>),
                          LabelData(removeprefix(data_str, <<"LABEL=">>), FALSE))
    ELSE IF startswith(data_str, <<"PARTUUID=">>)
    THEN find_data_branch(data_dic, removeprefix(data_str, <<"PARTUUID=">>),
                          UuidData(removeprefix(data_str, <<"PARTUUID=">>), TRUE))
    ELSE IF startswith(data_str, <<"PARTLABEL=">>)
    THEN find_data_branch(data_dic, removeprefix(data_str, <<"PARTLABEL=">>),
                          LabelData(removeprefix(data_str, <<"PARTLABEL=">>), TRUE))
    ELSE IF startswith(data_str, <<"DATA=">>)
    THEN [data_dic |-> data_dic,
          data_str |-> removeprefix(data_str, <<"DATA=">>)]
    ELSE IF IsNone(data_dic, data_str) /\ isabs(data_str)
    THEN [data_dic |-> SetItem(data_dic, data_str, PathData(data_str)),
          data_str |-> data_str]
    ELSE [data_dic |-> data_dic, data_str |-> data_str]

\* return data_dic[data_str]
find_data_return(r) ==
    [data_dic |-> r.data_dic,
     e |-> IF IsNone(r.data_dic, r.data_str) THEN "KeyError" ELSE "",
     data |-> r.data_str]

\* read_config.find_data(data_str): data_dic after the call, the exception
\* raised ("" if none) and the object returned
find_data(data_dic, data_str) ==
    find_data_return(find_data_chain(data_dic, data_str))

\* Data.add_dep(dep) on the object data_dic has under self
data_add_dep(data_dic, self, dep) ==
    LET o == data_dic.at[self]
    IN  [data_dic EXCEPT !.at[self] =
            [o EXCEPT !.lneed = SelectSeq(o.lneed, LAMBDA k : k # dep),
                      !.need = IF dep \in Range(o.need) THEN o.need
                               ELSE Append(o.need, dep)]]

\* Data.add_load_dep(dep) on the object data_dic has under self
data_add_load_dep(data_dic, self, dep) ==
    LET o == data_dic.at[self]
    IN  IF dep \notin Range(o.lneed) /\ dep \notin Range(o.need)
        THEN [data_dic EXCEPT !.at[self] = [o EXCEPT !.lneed = Append(o.lneed, dep)]]
        ELSE data_dic

\* Data.set_final() on the object data_dic has under self
RECURSIVE data_set_final(_, _)
RECURSIVE data_set_final_deps(_, _, _)
data_set_final(data_dic, self) ==
    data_set_final_deps([data_dic EXCEPT !.at[self].is_final = TRUE],
                        data_dic.at[self].need, 1)

data_set_final_deps(data_dic, deps, i) ==
    IF i > Len(deps) THEN data_dic
    ELSE data_set_final_deps(data_set_final(data_dic, deps[i]), deps, i + 1)

\* list(self.iter_all_deps()) for the object data_dic has under self
RECURSIVE data_iter_all_deps(_, _)
data_iter_all_deps(data_dic, self) ==
    LET deps == data_dic.at[self].need \o data_dic.at[self].lneed
    IN  concat([i \in 1..Len(deps) |->
                    <<deps[i]>> \o data_iter_all_deps(data_dic, deps[i])])

\* the first for loop of read_config, from the i-th section on: data_dic
\* after it and the exception raised
RECURSIVE read_sections(_, _, _)
read_section(sections, i, data_dic, r) ==
    IF r.e # "" THEN [data_dic |-> r.data_dic, e |-> r.e]
    ELSE read_sections(sections, i + 1,
             SetItem(r.data_dic, sections[i].id,
                 IF sections[i].type = "luks"
                 THEN LuksData(r.data, sections[i].id)
                 ELSE MountData(r.data, sections[i].id, "ext4")))

read_sections(sections, i, data_dic) ==
    IF i > Len(sections) THEN [data_dic |-> data_dic, e |-> ""]
    ELSE IF sections[i].type = "lvm"
    THEN read_sections(sections, i + 1,
             SetItem(data_dic, sections[i].id,
                     LvmData(sections[i].id, sections[i].id)))
    ELSE read_section(sections, i, data_dic,
                      find_data(data_dic, sections[i].source))

\* 'for dep in data_config.get(option).split(',')' from the i-th dep on,
\* for the option 'need' (load FALSE) or 'load-need' (load TRUE)
RECURSIVE add_deps(_, _, _, _, _)
add_deps_found(self, deps, i, load, r) ==
    IF r.e # "" THEN [data_dic |-> r.data_dic, e |-> r.e]
    ELSE add_deps(IF load THEN data_add_load_dep(r.data_dic, self, r.data)
                  ELSE data_add_dep(r.data_dic, self, r.data),
                  self, deps, i + 1, load)

add_deps(data_dic, self, deps, i, load) ==
    IF i > Len(deps) THEN [data_dic |-> data_dic, e |-> ""]
    ELSE add_deps_found(self, deps, i, load, find_data(data_dic, deps[i]))

\* the section of the given name
SectionOf(sections, data_id) ==
    sections[CHOOSE k \in 1..Len(sections) : sections[k].id = data_id]

\* 'for data_id, data in data_dic.items()' from the i-th key on; size is
\* the size of data_dic when the loop started: the iterator raises
\* RuntimeError when it is asked for the next key of a dict that grew
RECURSIVE configure_deps(_, _, _, _)
configure_lneed(sections, i, size, data_id, r) ==
    IF r.e # "" THEN r
    ELSE configure_deps(sections, r.data_dic, i + 1, size)

configure_need(sections, i, size, data_id, r) ==
    IF r.e # "" THEN r
    ELSE configure_lneed(sections, i, size, data_id,
             add_deps(r.data_dic, data_id,
                      SectionOf(sections, data_id).lneed, 1, TRUE))

configure_deps(sections, data_dic, i, size) ==
    IF Len(data_dic.keys) # size
    THEN [data_dic |-> data_dic, e |-> "RuntimeError"]
    ELSE IF i > size THEN [data_dic |-> data_dic, e |-> ""]
    ELSE IF \A k \in 1..Len(sections) : sections[k].id # data_dic.keys[i]
    THEN configure_deps(sections, data_dic, i + 1, size)
    ELSE configure_need(sections, i, size, data_dic.keys[i],
             add_deps(data_dic, data_dic.keys[i],
                      SectionOf(sections, data_dic.keys[i]).need, 1, FALSE))

\* tuple(find_data(k.strip()) for k in mountpoints.split(',') if k.strip())
RECURSIVE find_mounts(_, _, _, _)
find_mounts_found(mountpoints, i, found, r) ==
    IF r.e # "" THEN [data_dic |-> r.data_dic, e |-> r.e, mounts |-> found]
    ELSE find_mounts(r.data_dic, mountpoints, i + 1, Append(found, r.data))

find_mounts(data_dic, mountpoints, i, found) ==
    IF i > Len(mountpoints)
    THEN [data_dic |-> data_dic, e |-> "", mounts |-> found]
    ELSE find_mounts_found(mountpoints, i, found,
                           find_data(data_dic, mountpoints[i]))

\* line.split(':', maxsplit=1) and (src, dest[0] if dest else None)
split_colon(line) ==
    IF \E i \in 1..Len(line) : line[i] = ":"
    THEN LET i == CHOOSE i \in 1..Len(line) :
                     line[i] = ":" /\ \A j \in 1..(i - 1) : line[j] # ":"
         IN  <<SubSeq(line, 1, i - 1), SubSeq(line, i + 1, Len(line))>>
    ELSE <<line, <<>>>>

\* line.strip()
RECURSIVE strip(_)
strip(line) ==
    IF line # <<>> /\ Head(line) = " " THEN strip(Tail(line))
    ELSE IF line # <<>> /\ line[Len(line)] = " "
    THEN strip(SubSeq(line, 1, Len(line) - 1))
    ELSE line

\* module.split(): the words of a line, a word being one symbol
split_blank(line) == SelectSeq(line, LAMBDA c : c # " ")

\* the loop over the 'modules' lines: {module: [arg, ...]}
RECURSIVE read_modules(_, _, _)
read_modules(lines, i, modules) ==
    IF i > Len(lines) THEN modules
    ELSE IF lines[i] = <<>> THEN read_modules(lines, i + 1, modules)
    ELSE LET words_ == split_blank(lines[i])
             mod_name == Head(words_)
             old == IF mod_name \in DOMAIN modules THEN modules[mod_name] ELSE <<>>
         IN  read_modules(lines, i + 1,
                          (mod_name :> (old \o Tail(words_))) @@ modules)

\* one of the sets files, execs, libs, busybox: what root, the mounts and
\* their iter_all_deps() declare
declared(data_dic, root_, mounts_, field) ==
    UNION {data_dic.at[data][field] \cup
               UNION {data_dic.at[ddep][field] :
                          ddep \in Range(data_iter_all_deps(data_dic, data))} :
           data \in Range(<<root_>> \o mounts_)}

\* the lines of an option of DEFAULT that are not empty
lines_of(option) == {option[i] : i \in {j \in 1..Len(option) : option[j] # <<>>}}

\* read_config from 'Define needed files, execs and libs' on: the Config
read_config_collect(cfg, root_, r) ==
    IF r.e # "" THEN [e |-> r.e]
    ELSE [e |-> "",
          root |-> root_,
          mounts |-> r.mounts,
          files |-> declared(r.data_dic, root_, r.mounts, "files")
                        \cup {split_colon(l) : l \in lines_of(cfg.files)},
          execs |-> declared(r.data_dic, root_, r.mounts, "execs")
                        \cup {split_colon(l) : l \in lines_of(cfg.execs)},
          libs |-> declared(r.data_dic, root_, r.mounts, "libs")
                        \cup {split_colon(l) : l \in lines_of(cfg.libs)},
          busybox |-> declared(r.data_dic, root_, r.mounts, "busybox")
                        \cup {strip(l) : l \in lines_of(cfg.busybox)},
          modules |-> read_modules(cfg.modules, 1, <<>>),
          data_dic |-> data_set_final(
                           data_set_final_deps(r.data_dic, r.mounts, 1), root_)]

\* read_config from 'Define Data for root and for other mounts' on
read_config_root(cfg, r) ==
    IF r.e # "" THEN [e |-> r.e]
    ELSE read_config_collect(cfg, r.data,
             find_mounts(r.data_dic, cfg.mountpoints, 1, <<>>))

\* read_config from 'Configure dependencies' on
read_config_deps(cfg, r) ==
    IF r.e # "" THEN [e |-> r.e]
    ELSE read_config_root(cfg, find_data(r.data_dic, cfg.root))

read_config_sections(cfg, r) ==
    IF r.e # "" THEN [e |-> r.e]
    ELSE read_config_deps(cfg,
             configure_deps(cfg.sections, r.data_dic, 1, Len(r.data_dic.keys)))

\* read_config on a configuration file that was read: the exception raised
\* ("" if none) and the fields of the Config returned
read_config_run(cfg) ==
    read_config_sections(cfg,
        read_sections(cfg.sections, 1, [keys |-> <<>>, at |-> <<>>]))

\* the configuration files read: up to MaxSections sections named s1, s2,
\* ..., each a luks device, a logical volume or an ext4 mount, with the
\* options 'source', 'need' and 'load-need'; an option that names a section
\* names an earlier one, as add_dep needs it; DEFAULT with root,
\* mountpoints and either no other option or one line for each of files,
\* execs, libs, busybox and modules
SectionId(i) ==
    <<CASE i = 1 -> "s1" [] i = 2 -> "s2" [] i = 3 -> "s3" [] OTHER -> "s4">>

SectionsAt(i) ==
    {[id |-> SectionId(i), type |-> t, source |-> src, need |-> nd, lneed |-> ln] :
        t \in {"luks", "mount"},
        src \in {<<"UUID=", "x">>, <<"PARTUUID=", "x">>, <<"/", "p">>,
                 <<"DATA=", "s1">>},
        nd \in {<<>>, <<<<"LABEL=", "x">>>>}
                  \cup {<< <<"DATA=">> \o SectionId(j) >> : j \in 1..(i - 1)},
        ln \in {<<>>, <<<<"PATH=", "/", "p">>>>}}
    \cup
    {[id |-> SectionId(i), type |-> "lvm", source |-> <<>>, need |-> nd, lneed |-> ln] :
        nd \in {<<>>, <<<<"LABEL=", "x">>>>}
                  \cup {<< <<"DATA=">> \o SectionId(j) >> : j \in 1..(i - 1)},
        ln \in {<<>>, <<<<"PATH=", "/", "p">>>>}}

RECURSIVE SectionLists(_)
SectionLists(n) ==
    IF n = 0 THEN {<<>>}
    ELSE LET shorter == SectionLists(n - 1)
         IN  shorter \cup {Append(s, x) : s \in {t \in shorter : Len(t) = n - 1},
                                          x \in SectionsAt(n)}

Defaults ==
    {[files |-> <<>>, execs |-> <<>>, libs |-> <<>>, busybox |-> <<>>,
      modules |-> <<>>],
     [files |-> <<<<"/etc/a", ":", "/etc/b">>>>,
      execs |-> <<<<"/bin/extra">>, <<>>>>,
      libs |-> <<<<"libz.so">>>>,
      busybox |-> <<<<" ", "cat">>>>,
      modules |-> <<<<"nvme", " ", "opt=1">>, <<"nvme", " ", "opt=2">>>>]}

ConfigFiles ==
    {[sections |-> s, root |-> r, mountpoints |-> m, files |-> d.files,
      execs |-> d.execs, libs |-> d.libs, busybox |-> d.busybox,
      modules |-> d.modules] :
        s \in SectionLists(MaxSections),
        r \in {<<"DATA=", "s1">>, <<"DATA=", "s2">>, <<"UUID=", "x">>},
        m \in {<<>>, <<<<"DATA=", "s1">>>>, <<<<"LABEL=", "x">>>>},
        d \in Defaults}

read_config ==
    /\ called = "read_config"
    /\ result = <<>>
    /\ result' = <<read_config_run(args)>>
    /\ UNCHANGED <<dvars, svars, nvars, bvars, cvars, mvars, called, args>>

ConfigInit ==
    /\ NoState
    /\ called = "read_config"
    /\ args \in ConfigFiles

SpecConfig == ConfigInit /\ [][read_config]_vars

(***************************************************************************)
(* read_config.find_data called on a list of identifiers, one call after   *)
(* the other, as the loops of read_config do.  args holds data_dic and the *)
(* identifiers, result the exception raised and the object returned by     *)
(* each call made so far.                                                  *)
(***************************************************************************)
\* the identifiers of a configuration file: each prefix, and no prefix,
\* before a name, an absolute path or the name of the section s1
Identifiers ==
    {<<p>> \o v : p \in {"PATH=", "UUID=", "LABEL=", "PARTUUID=", "PARTLABEL="},
                  v \in {<<"x">>, <<"/", "p">>}}
    \cup {<<"DATA=", "s1">>, <<"/", "p">>}

RECURSIVE IdentifierLists(_)
IdentifierLists(n) ==
    IF n = 0 THEN {<<>>}
    ELSE LET shorter == IdentifierLists(n - 1)
         IN  shorter \cup {Append(s, x) : s \in {t \in shorter : Len(t) = n - 1},
                                          x \in Identifiers}

find_data_call ==
    /\ called = "find_data"
    /\ Len(result) < Len(args.idents)
    /\ \E r \in {find_data(args.data_dic, args.idents[Len(result) + 1])} :
          /\ result' = Append(result, [e |-> r.e, data |-> r.data])
          /\ args' = [args EXCEPT !.data_dic = r.data_dic]
    /\ UNCHANGED <<dvars, svars, nvars, bvars, cvars, mvars, called>>

\* data_dic holds the section s1 (a logical volume) when the first
\* identifier is resolved
FindInit ==
    /\ NoState
    /\ called = "find_data"
    /\ args \in [data_dic : {SetItem([keys |-> <<>>, at |-> <<>>], <<"s1">>,
                                     LvmData(<<"s1">>, <<"s1">>))},
                 idents : IdentifierLists(MaxLookups)]

SpecFind == FindInit /\ [][find_data_call]_vars

(***************************************************************************)
(* The shell function mount_fsck that MountData.__fun_fsck writes, called  *)
(* with a command whose exit status is fsck_ret.  The result is the value  *)
(* returned, the calls of the logging functions in order and whether       *)
(* 'reboot -f' was run (mount_fsck returns 0 when reboot returns).         *)
(***************************************************************************)
\* $((a & b)) on non-negative integers
RECURSIVE BitAnd(_, _)
BitAnd(a, b) ==
    IF a = 0 \/ b = 0 THEN 0
    ELSE (a % 2) * (b % 2) + 2 * BitAnd(a \div 2, b \div 2)

\* fsck_err.items(), in insertion order
fsck_err ==
    <<[err_code |-> 1, err_call |-> "notice", err_str |-> "Filesystem errors corrected"],
      [err_code |-> 2, err_call |-> "notice", err_str |-> "System should be rebooted"],
      [err_code |-> 4, err_call |-> "alert", err_str |-> "Filesystem errors left uncorrected"],
      [err_code |-> 8, err_call |-> "crit", err_str |-> "Operational error"],
      [err_code |-> 16, err_call |-> "crit", err_str |-> "Usage or syntax error"],
      [err_code |-> 32, err_call |-> "err", err_str |-> "Checking canceled by user request"],
      [err_code |-> 128, err_call |-> "crit", err_str |-> "Shared-library error"]>>

\* code_err without the bit 64, which has no message
code_err_logged == 4 + 8 + 16 + 32 + 128

\* 4 | 8 | 16 | 32 | 64 | 128
code_err == 4 + 8 + 16 + 32 + 64 + 128

code_reboot == 2

\* the lines '[ "$((fsck_ret & err_code))" -eq err_code ] && err_call ...'
fsck_logs(fsck_ret) ==
    [i \in 1..Len(SelectSeq(fsck_err,
                            LAMBDA m : BitAnd(fsck_ret, m.err_code) = m.err_code)) |->
        LET m == SelectSeq(fsck_err,
                           LAMBDA k : BitAnd(fsck_ret, k.err_code) = k.err_code)[i]
        IN  <<m.err_call, <<"fsck: ", m.err_str>>>>]

mount_fsck_run(fsck_ret) ==
    IF fsck_ret = 0 THEN [ret |-> 0, logs |-> <<>>, reboot |-> FALSE]
    ELSE IF BitAnd(fsck_ret, code_err) # 0
    THEN [ret |-> 1, logs |-> fsck_logs(fsck_ret), reboot |-> FALSE]
    ELSE IF BitAnd(fsck_ret, code_reboot) = 2
    THEN [ret |-> 0,
          logs |-> Append(fsck_logs(fsck_ret), <<"notice", <<"Rebooting...">>>>),
          reboot |-> TRUE]
    ELSE [ret |-> 0, logs |-> fsck_logs(fsck_ret), reboot |-> FALSE]

mount_fsck ==
    /\ called = "mount_fsck"
    /\ result = <<>>
    /\ result' = <<mount_fsck_run(args.fsck_ret)>>
    /\ UNCHANGED <<dvars, svars, nvars, bvars, cvars, mvars, called, args>>

\* every exit status of a command
FsckInit ==
    /\ NoState
    /\ called = "mount_fsck"
    /\ args \in [fsck_ret : 0..255]

SpecFsck == FsckInit /\ [][mount_fsck]_vars

(***************************************************************************)
(* The shell function log that _fun_log writes.  args holds the positional *)
(* parameters (words), the variables RD_DEBUG and RD_QUIET ("unset" or a   *)
(* value) and whether /dev/kmsg can be written.  The result is the value   *)
(* returned and the lines written to stderr and to /dev/kmsg.              *)
(***************************************************************************)
\* the integer a word is, -1 when the word is none ([ reports an error)
Number(word) ==
    CASE word = "0" -> 0 [] word = "1" -> 1 [] word = "2" -> 2
      [] word = "3" -> 3 [] word = "4" -> 4 [] word = "5" -> 5
      [] word = "6" -> 6 [] word = "7" -> 7 [] word = "8" -> 8
      [] OTHER -> -1

\* [ "${1-}" -lt 8 ]
log_has_level(argv) ==
    argv # <<>> /\ Number(argv[1]) # -1 /\ Number(argv[1]) < 8

\* the list of the if, with && binding tighter than ||
log_mirror_and_first(lvl, a) ==
    \/ lvl = 5
    \/ (lvl = 6 /\ a.RD_QUIET = "unset")
    \/ a.RD_DEBUG # "unset"
    \/ lvl <= 4

\* the list of the if: && and || have the same precedence and associate to
\* the left
log_mirror(lvl, a) ==
    \/ \/ /\ \/ lvl = 5
             \/ lvl = 6
          /\ a.RD_QUIET = "unset"
       \/ a.RD_DEBUG # "unset"
    \/ lvl <= 4

\* log from 'echo ... 1>/dev/kmsg' on
log_write(lvl, argv, a) ==
    [ret |-> 0,
     kmsg |-> IF a.kmsg
              THEN <<<<24 + lvl - BitAnd(24, lvl)>> \o argv>>
              ELSE <<>>,
     stderr |-> IF log_mirror(lvl, a) THEN <<argv>> ELSE <<>>]

\* log from '[ $# -ge 1 ] || return 0' on
log_shifted(lvl, argv, a) ==
    IF Len(argv) >= 1 THEN log_write(lvl, argv, a)
    ELSE [ret |-> 0, kmsg |-> <<>>, stderr |-> <<>>]

log_run(a) ==
    IF log_has_level(a.argv)
    THEN log_shifted(Number(a.argv[1]), Tail(a.argv), a)
    ELSE log_shifted(1, a.argv, a)

log ==
    /\ called = "log"
    /\ result = <<>>
    /\ result' = <<log_run(args)>>
    /\ UNCHANGED <<dvars, svars, nvars, bvars, cvars, mvars, called, args>>

\* the calls: no parameter, or a first word (a level, 8 or a word that is
\* no number) followed by a message of zero, one or two words
LogCalls ==
    [argv : {<<>>} \cup {<<l>> \o m :
                 l \in {"0", "1", "2", "3", "4", "5", "6", "7", "8", "x"},
                 m \in {<<>>, <<"m">>, <<"a", "b">>}},
     RD_DEBUG : {"unset", "", "1"},
     RD_QUIET : {"unset", "", "1"},
     kmsg : BOOLEAN]

LogInit ==
    /\ NoState
    /\ called = "log"
    /\ args \in LogCalls

SpecLog == LogInit /\ [][log]_vars

(***************************************************************************)
(* bin.find_kmod(module, kernel) on a host whose module tree is a set of   *)
(* files.  A path is a string as above, one symbol per name; a name is     *)
(* spelled out where the code looks into it (replace('_', '-'), the        *)
(* suffix '.ko', the leading '.' glob does not match with '*').            *)
(***************************************************************************)
KMOD_DIR == <<"/", "lib", "/", "modules">>

\* the parts of a name: '_', '-', '.', the suffixes and what is between
Spell(name) ==
    CASE name = "dm_crypt" -> <<"dm", "_", "crypt">>
      [] name = "dm-crypt" -> <<"dm", "-", "crypt">>
      [] name = "ext4.ko" -> <<"ext4", ".ko">>
      [] name = "dm_crypt.ko" -> <<"dm", "_", "crypt", ".ko">>
      [] name = "dm-crypt.ko" -> <<"dm", "-", "crypt", ".ko">>
      [] name = "ext4.ko.xz" -> <<"ext4", ".ko", ".xz">>
      [] name = "*.ko" -> <<"*", ".ko">>
      [] name = ".hid" -> <<".", "hid">>
      [] OTHER -> <<name>>

\* str.replace('_', '-') on a spelled name
replace_underscore(spelled) ==
    [i \in 1..Len(spelled) |-> IF spelled[i] = "_" THEN "-" ELSE spelled[i]]

\* fnmatch of one name against one component of a glob pattern, as glob
\* applies it: '*' and '**' (glob is not called with recursive=True) match
\* every name that has no leading '.', '*.ko' those that end with '.ko'
glob_component(name, pat) ==
    IF pat \in {"*", "**"} THEN Head(Spell(name)) # "."
    ELSE IF pat = "*.ko"
    THEN /\ Head(Spell(name)) # "."
         /\ Len(Spell(name)) >= 2
         /\ Spell(name)[Len(Spell(name))] = ".ko"
    ELSE name = pat

\* glob.glob(pathname) over the files of the host
glob(host_files, pathname) ==
    {p \in host_files :
        /\ Len(split(p)) = Len(split(pathname))
        /\ \A i \in 1..Len(split(p)) :
              split(pathname)[i] = "" \/ glob_component(split(p)[i], split(pathname)[i])}

\* _get_all_kmods(kernel)
get_all_kmods(host_files, kernel) ==
    glob(host_files,
         normpath(KMOD_DIR \o <<"/", kernel, "/", "**", "/", "*.ko">>))

\* the modules of the loop of find_kmod that pass its test
find_kmod_found(a) ==
    {kmod \in get_all_kmods(a.host_files, a.kernel) :
        replace_underscore(Spell(a.module[1])) \o <<".ko">>
            = replace_underscore(Spell(basename(kmod)))}

\* find_kmod(module, kernel); the loop visits a frozenset, in any order
find_kmod_call ==
    /\ called = "find_kmod"
    /\ result = <<>>
    /\ IF isabs(args.module)
       THEN result' = <<[e |-> "", path |-> args.module]>>
       ELSE IF find_kmod_found(args) = {}
       THEN result' = <<[e |-> "FileNotFoundError", path |-> <<>>]>>
       ELSE \E kmod \in find_kmod_found(args) :
               result' = <<[e |-> "", path |-> normpath(kmod)]>>
    /\ UNCHANGED <<dvars, svars, nvars, bvars, cvars, mvars, called, args>>

\* the files a module tree may hold: in the tree itself, one directory
\* down, two directories down, in a hidden directory
ModuleFiles ==
    {KMOD_DIR \o <<"/", "K">> \o d \o <<"/", b>> :
        d \in {<<>>, <<"/", "extra">>, <<"/", "kernel", "/", "fs">>,
               <<"/", ".hid">>},
        b \in {"ext4.ko", "dm_crypt.ko", "dm-crypt.ko", "ext4.ko.xz"}}

KmodCalls ==
    [module : {<<"ext4">>, <<"dm_crypt">>, <<"dm-crypt">>,
               <<"/", "abs", "/", "ext4.ko">>},
     kernel : {"K"},
     host_files : {t \in SUBSET ModuleFiles : Cardinality(t) <= MaxFiles}]

KmodInit ==
    /\ NoState
    /\ called = "find_kmod"
    /\ args \in KmodCalls

SpecKmod == KmodInit /\ [][find_kmod_call]_vars

(***************************************************************************)
(* Properties of the emitted script and of the Data graph.                 *)
(***************************************************************************)
\* number of fragments of the given kind ("load", "unload") written for n
Count(kind, n) ==
    Cardinality({i \in 1..Len(out) : out[i][1] = kind /\ out[i][2] = n})

\* position in the script of the first such fragment, 0 if there is none
Pos(kind, n) ==
    IF Count(kind, n) = 0 THEN 0
    ELSE CHOOSE i \in 1..Len(out) :
            /\ out[i][1] = kind /\ out[i][2] = n
            /\ \A j \in 1..(i - 1) : ~(out[j][1] = kind /\ out[j][2] = n)

\* no object depends on itself through _need and _lneed
Acyclic == \A n \in Data : n \notin iter_all_deps(n)

\* no two sections of the configuration describe the same device
TwinFree == \A a, b \in Data : a # b => key[a] # key[b]

\* the objects reachable from S through _need
RECURSIVE HardReach(_, _)
HardReach(S, k) ==
    IF k = 0 THEN S
    ELSE HardReach(S \cup UNION {Range(need[n]) : n \in S}, k - 1)

\* the objects the root or a mount needs, themselves included
Needed ==
    IF root = 0 THEN {}
    ELSE UNION {{d} \cup iter_all_deps(d) : d \in {root} \cup Range(mounts)}

\* mkinit was called on what read_config returns: set_final was called on
\* the mounts and on the root once all edges were added, on nothing else
Configured ==
    /\ root # 0
    /\ \A n \in Data :
          is_final[n] <=> n \in HardReach({root} \cup Range(mounts), NumData)

\* C1: for every hard edge a -> b of an acyclic graph, if both load
\* fragments are in the script then b's comes before a's, and if both
\* unload fragments are in the script then a's comes before b's
C1_HardDepOrder ==
    (Acyclic /\ TwinFree /\ Configured) =>
        \A a, b \in Data : b \in Range(need[a]) =>
            /\ (Count("load", a) > 0 /\ Count("load", b) > 0)
                   => Pos("load", b) < Pos("load", a)
            /\ (Count("unload", a) > 0 /\ Count("unload", b) > 0)
                   => Pos("unload", a) < Pos("unload", b)

\* C2: in an emission pass over an acyclic graph no object has its load
\* fragment written twice, and when mkinit returns every object the root or
\* a mount needs has its load fragment in the script exactly once
C2_LoadExactlyOnce ==
    (Acyclic /\ Configured) =>
        /\ \A n \in Data : Count("load", n) <= 1
        /\ phase = "done" => \A n \in Needed : Count("load", n) = 1

\* C3: when mkinit returns, every object that is not final and whose load
\* fragment was written has exactly one unload fragment and is not loaded;
\* every final object that was loaded is still loaded and has no unload
\* fragment
C3_UnloadedAtReturn ==
    (Acyclic /\ TwinFree /\ Configured /\ phase = "done") =>
        \A n \in Data : Count("load", n) > 0 =>
            IF is_final[n]
            THEN Count("unload", n) = 0 /\ is_loaded[n]
            ELSE Count("unload", n) = 1 /\ ~is_loaded[n]

\* C20: on an acyclic graph whose root and mounts were marked with set_final
\* once all edges were added, mkinit never ends in a DataError: load is not
\* called on a loaded object, and no unload reaches an object that is final,
\* not loaded or still needed
C20_NoDataError ==
    (Acyclic /\ TwinFree /\ Configured) => err # "DataError"

\* C21: during an emission pass over an acyclic graph a load fragment is
\* written only for the root, the mounts and the objects they reach through
\* _need and _lneed; a configured object that merely depends on one of
\* those is never loaded
C21_OnlyNeededLoaded ==
    (Acyclic /\ TwinFree /\ Configured) =>
        \A n \in Data : Count("load", n) > 0 => n \in Needed

\* C4: in every state reached by add_dep, add_load_dep and set_final calls
\* (on an acyclic graph of pairwise different devices), a final object has
\* only final hard dependencies
C4_FinalClosed ==
    (phase = "config" /\ Acyclic /\ TwinFree) =>
        \A x, y \in Data : (is_final[x] /\ y \in Range(need[x])) => is_final[y]

\* C5: x is in y's _needed_by exactly when y is in x's _need or _lneed
\* (stated here for the acyclic graphs of the configuration, before any
\* emission)
C5_ReverseDepsInverse ==
    (phase = "config" /\ Acyclic) =>
        \A x, y \in Data : x \in Range(needed_by[y]) <=> y \in Deps(x)

\* C6: as long as no error was raised the graph is acyclic: an add_dep or
\* add_load_dep that closes a cycle raises an error
C6_AlwaysDAG == phase # "error" => Acyclic

C8_LoadDepUnloaded ==
    (Acyclic /\ Configured) =>
        \A a, b \in Data :
            (b \in Range(lneed[a]) /\ ~is_final[a] /\ ~is_final[b]
                /\ Count("load", a) > 0) =>
                /\ phase = "done" =>
                      (Count("unload", b) > 0 /\ Pos("unload", b) > Pos("load", a))
                /\ \A c \in Data :
                      (Pos("load", c) > Pos("load", a) /\ c # b
                          /\ b \notin iter_all_deps(c)) =>
                      (Count("unload", b) > 0 /\ Pos("unload", b) > Pos("load", a)
                          /\ Pos("unload", b) < Pos("load", c))

(***************************************************************************)
(* Properties of the sections of the script.                               *)
(***************************************************************************)
\* position of the ROOTFS gate in the script, 0 if it is not written
RootfsGate ==
    IF \E j \in 1..Len(out) : out[j][1] = "do_break" /\ out[j][2] = "ROOTFS"
    THEN CHOOSE j \in 1..Len(out) : out[j][1] = "do_break" /\ out[j][2] = "ROOTFS"
    ELSE 0

\* the section the i-th entry of the script belongs to, numbered in the
\* order of the claim; a load or unload fragment is in the root's section
\* before the ROOTFS gate (at position gate) and in the mounts' section
\* after it
Section(i, gate) ==
    LET kind == out[i][1]
    IN  CASE kind \in {"load", "unload"} -> IF gate # 0 /\ gate < i THEN 12 ELSE 10
          [] kind = "do_header" -> 1
          [] kind = "do_break" ->
                (CASE out[i][2] = "EARLY" -> 2
                   [] out[i][2] = "INIT" -> 7
                   [] out[i][2] = "MODULE" -> 9
                   [] out[i][2] = "ROOTFS" -> 11
                   [] out[i][2] = "MOUNT" -> 13)
          [] kind = "do_init" -> 3
          [] kind = "do_cmdline" -> 4
          [] kind = "do_keymap" -> 5
          [] kind = "initialize" -> 6
          [] kind = "do_module" -> 8
          [] kind = "do_switch_root" -> 14

\* number of entries of the script in section s
InSection(s) == Cardinality({i \in 1..Len(out) : Section(i, RootfsGate) = s})

\* the mounts have their load fragments in the mounts' section in the order
\* of the list
RECURSIVE MountsInOrder(_, _)
MountsInOrder(k, from) ==
    \/ k > Len(mounts)
    \/ \E i \in from..Len(out) :
          /\ out[i][1] = "load" /\ out[i][2] = mounts[k]
          /\ Section(i, RootfsGate) = 12
          /\ MountsInOrder(k + 1, i + 1)

\* C14: whatever mkinit has written is in the order header, EARLY gate, init
\* block, command-line parser, keymap load (at most one), class
\* initializers, INIT gate, module loads, MODULE gate, the root's load and
\* what it triggers, ROOTFS gate, the loads of the mounts in the order of
\* the list, MOUNT gate, switch_root, each section but the module loads and
\* the loads at most once; everything up to the MODULE gate is there as
\* soon as something is, and once mkinit has returned the two last gates
\* and switch_root are there, so no load or unload fragment is before the
\* MODULE gate or after the MOUNT gate
C14_SectionOrder ==
    out # <<>> =>
        LET gate == RootfsGate
            sec == [i \in 1..Len(out) |-> Section(i, gate)]
        IN  /\ \A i \in 1..(Len(out) - 1) :
                  \/ sec[i] < sec[i + 1]
                  \/ sec[i] = sec[i + 1] /\ sec[i] \in {8, 10, 12}
            /\ \A s \in {1, 2, 3, 4, 6, 7, 9} : \E i \in 1..Len(out) : sec[i] = s
            /\ phase = "done" =>
                  /\ \A s \in {11, 13, 14} : \E i \in 1..Len(out) : sec[i] = s
                  /\ \E i \in 1..Len(out) :
                        out[i][1] = "load" /\ out[i][2] = root /\ sec[i] = 10
                  /\ MountsInOrder(1, 1)

\* mkinit has returned for a configuration with a keymap, kernel modules
\* and two mounts, and has written an unload fragment
C14_Witness ==
    /\ phase = "done"
    /\ Len(mounts) = 2
    /\ InSection(5) = 1
    /\ InSection(8) = 2
    /\ \E i \in 1..Len(out) : out[i][1] = "unload"

\* C15: in the script of a graph without cycle and without equal objects
\* whose final objects are those read_config marks, the class of every
\* object that has a load fragment, if its initialize() writes something,
\* has its initialization fragment written, once and before the first load
\* fragment
C15_InitializedBeforeLoad ==
    (Acyclic /\ TwinFree /\ Configured) =>
        \A n \in Data :
            (Count("load", n) > 0 /\ DataClass[n] \in Initializers) =>
                /\ Cardinality({i \in 1..Len(out) :
                       out[i][1] = "initialize" /\ DataClass[n] \in out[i][2]}) = 1
                /\ \E i \in 1..Len(out) :
                       /\ out[i][1] = "initialize" /\ DataClass[n] \in out[i][2]
                       /\ i < Pos("load", n)

(***************************************************************************)
(* Properties of the item store.                                           *)
(***************************************************************************)
\* no destination path is owned by two items of the store
NoSharedDest ==
    \A i, j \in 1..Len(items) :
        i # j => items[i].dests \cap items[j].dests = {}

\* only a File owns several destinations
OneDestButFile ==
    \A i \in 1..Len(items) :
        items[i].class # "File" => Cardinality(items[i].dests) = 1

\* a destination of new is owned by an item of its that new cannot merge with
Collides(its, new) ==
    \E i \in 1..Len(its) :
        ~is_mergeable(its[i], new) /\ new.dests \cap its[i].dests # {}

\* C9: in every state of the store no destination is owned by two items and
\* only a File owns several destinations; an add_item whose argument has a
\* destination owned by an item it cannot merge with raises MergeError and
\* leaves the store as it was
C9_UniqueDests ==
    /\ [](NoSharedDest /\ OneDestButFile)
    /\ [][Collides(items, new_item')
              => (raised' \in MergeError /\ items' = items)]_vars

\* add_item raised the collision error for a File that the store could have
\* merged into one of its Files, whose hard-link set holds two destinations
C9_Witness ==
    /\ nadds > 0
    /\ raised = "File collision"
    /\ Collides(items, new_item)
    /\ \E i \in 1..Len(items) :
          is_mergeable(items[i], new_item) /\ Cardinality(items[i].dests) = 2

\* a destination of new other than '/' whose parent no directory of its owns
\* (a symbolic link counts as the directory it points to)
MissingParent(its, new) ==
    \E d \in new.dests \ {<<>>} :
        ~\E i \in 1..Len(its) :
            /\ its[i].class \in {"Directory", "Symlink"}
            /\ dirname(d) \in its[i].dests

\* C10: add_item raises the missing directory error only when a destination
\* of its argument has a parent no directory of the store owns, it raises it
\* whenever that is so and no destination collides, and it returns normally
\* when every parent is owned by a directory and no destination collides
C10_MissingParentExactly ==
    [][ /\ raised' = "Missing directory" => MissingParent(items, new_item')
        /\ (MissingParent(items, new_item') /\ ~Collides(items, new_item'))
               => raised' = "Missing directory"
        /\ (~MissingParent(items, new_item') /\ ~Collides(items, new_item'))
               => raised' = "" ]_vars

\* position of a Directory of the store that owns path, 0 if there is none
DirectoryOf(its, path) ==
    IF \E j \in 1..Len(its) : its[j].class = "Directory" /\ path \in its[j].dests
    THEN CHOOSE j \in 1..Len(its) : its[j].class = "Directory" /\ path \in its[j].dests
    ELSE 0

\* the File cur of the store and the File new have the same content hash,
\* mode, user and group, no item of the store owns a destination of new, and
\* a Directory of the store owns the parent of each destination of new
SecondInsertion(its, cur, new) ==
    /\ cur.class = "File" /\ new.class = "File"
    /\ cur.data_hash = new.data_hash /\ cur.mode = new.mode
    /\ cur.user = new.user /\ cur.group = new.group
    /\ \A d \in new.dests : ~contains(its, d) /\ DirectoryOf(its, dirname(d)) # 0

\* C11: adding a File with the content hash, mode, user and group of a File
\* of the store, with destinations nothing owns and whose parents are
\* directories of the store, raises nothing and adds no item: the File of the
\* store gets the destinations of both, and its line of the CPIO list is one
\* 'file' line with the source once, the first destination in sorted order
\* as name and the other destinations as hard links
C11_MergedFileOneLine ==
    [][\A i \in 1..Len(items) :
          SecondInsertion(items, items[i], new_item')
          => /\ raised' = ""
             /\ Len(items') = Len(items)
             /\ items'[i].dests = items[i].dests \cup new_item'.dests
             /\ LET line == build_to_cpio_list(items')[i]
                    all == {line.name} \cup Range(line.links)
                IN  /\ line.type = "file"
                    /\ line.location = items[i].src
                    /\ all = items'[i].dests
                    /\ Len(line.links) = Cardinality(all) - 1
                    /\ \A d \in Range(line.links) : PathLess(line.name, d)]_vars

(***************************************************************************)
(* Properties of destination normalization.                                *)
(***************************************************************************)
\* the names an absolute path leads through, '.' and empty names dropped
\* and '..' going one name back (staying at the root)
RECURSIVE Resolved(_, _)
Resolved(string, names) ==
    IF string = <<>> THEN names
    ELSE IF Head(string) \in {"/", "."} THEN Resolved(Tail(string), names)
    ELSE IF Head(string) = ".."
    THEN Resolved(Tail(string), SubSeq(names, 1, Len(names) - 1))
    ELSE Resolved(Tail(string), Append(names, Head(string)))

\* names without a leading usr/local, else without a leading usr
Stripped(names) ==
    IF Len(names) >= 3 /\ names[1] = "usr" /\ names[2] = "local"
    THEN SubSeq(names, 3, Len(names))
    ELSE IF Len(names) >= 2 /\ names[1] = "usr"
    THEN Tail(names)
    ELSE names

\* C17: __normalize raises ValueError for a relative path; for an absolute
\* one it returns the path with '//' collapsed and '.' and '..' resolved,
\* without the leading /usr/local if it is under /usr/local/, else without
\* the leading /usr if it is under /usr/, and what it returns is absolute
C17_Normalize ==
    normalized # <<>> =>
        LET r == normalized[1]
            kept == Stripped(Resolved(norm_path, <<>>))
        IN  IF norm_path = <<>> \/ Head(norm_path) # "/"
            THEN r.e = "ValueError"
            ELSE /\ r.e = ""
                 /\ r.path = (IF kept = <<>> THEN <<"/">> ELSE Absolute(kept))
                 /\ Head(r.path) = "/"

\* '//usr/local/a' has been normalized to '/a'
C17_Witness ==
    /\ norm_path = <<"/", "/", "usr", "/", "local", "/", "a">>
    /\ normalized = <<[e |-> "", path |-> <<"/", "a">>]>>

(***************************************************************************)
(* Properties of cmkcpiolist.                                              *)
(***************************************************************************)
\* C12: the CPIO list a run has written has one line per item of the store,
\* in the order of the store, and two runs on the same configuration and
\* host have written the same list
C12_Deterministic ==
    /\ bpc = "done" =>
          LET list == cpio[Len(cpio)]
          IN  /\ Len(list) = Len(items)
              /\ \A i \in 1..Len(items) : list[i].name \in items[i].dests
    /\ Len(cpio) = 2 => cpio[1] = cpio[2]

\* the command is a file of the store that comes from the host's executable
\* of that name and has that name
AddedFromHost(command) ==
    \E i \in 1..Len(items) :
        /\ items[i].class = "File"
        /\ items[i].src = find_exec(command)
        /\ \E d \in items[i].dests : d # <<>> /\ d[Len(d)] = command

\* an item that does not come from busybox owns the path
OccupiedByOther(its, p) ==
    \E i \in 1..Len(its) :
        /\ p \in its[i].dests
        /\ ~(its[i].class = "File" /\ its[i].data_hash = hash_file(find_exec("busybox")))

\* C16: no visit of an applet makes add_busybox fail: whatever add_file
\* raises for the applet is a MergeError, it is swallowed and the store is
\* left as it was, and this is what happens when something else owns the
\* applet's destination; and once add_busybox has returned every command of
\* needed is an applet busybox reported, a shell special built-in, a shell
\* reserved word, or a file added from the host's executable of that name
C16_AppletsNeverFail ==
    /\ [](bpc \in {"list", "done"} =>
            \A command \in needed :
                \/ command \in {basename(a) : a \in Range(busybox_get_applets(build_host))}
                \/ command \in SHELL_SPECIAL_BUILTIN
                \/ command \in SHELL_RESERVED_WORDS
                \/ AddedFromHost(command))
    /\ [][bpc = "applets" =>
            LET applet == busybox_get_applets(build_host)[ai]
                dest == names_of(normalize(applet).path)
            IN  /\ bpc' # "raised"
                /\ raised' # "" => raised' \in MergeError /\ items' = items
                /\ OccupiedByOther(items, dest) => raised' \in MergeError
                /\ contains(items, dest) => items' = items]_vars

\* add_busybox has returned: the applet /bin/cat was not added because the
\* host's cat is at /bin/cat, and uname, that busybox does not have, was
\* added from the host
C16_Witness ==
    /\ bpc = "list"
    /\ "cat" \in {basename(a) : a \in Range(busybox_get_applets(build_host))}
    /\ "uname" \notin {basename(a) : a \in Range(busybox_get_applets(build_host))}
    /\ \E i \in 1..Len(items) :
          <<"bin", "cat">> \in items[i].dests /\ items[i].data_hash = "cat"
    /\ AddedFromHost("uname")

\* the list holds no object twice
NoDuplicate(s) == \A i, j \in 1..Len(s) : s[i] = s[j] => i = j

\* C13: while the graph is being configured (and has no cycle), the
\* hard_deps and load_deps of every node are disjoint and without
\* duplicates, the node is exactly once in the reverse_deps of each of its
\* dependencies, and hard wins: a hard dependency stays one, and a load
\* dependency only leaves load_deps to become a hard one
C13_DepLists ==
    /\ [](phase = "config" /\ Acyclic =>
            \A n \in Data :
                /\ Range(need[n]) \cap Range(lneed[n]) = {}
                /\ NoDuplicate(need[n]) /\ NoDuplicate(lneed[n])
                /\ \A d \in Deps(n) :
                      Cardinality({i \in 1..Len(needed_by[d]) : needed_by[d][i] = n}) = 1)
    /\ [][phase' = "config" =>
            \A n, d \in Data :
                /\ d \in Range(need[n]) => d \in Range(need'[n])
                /\ d \in Range(lneed[n]) /\ d \notin Range(lneed'[n])
                      => d \in Range(need'[n])]_vars

(***************************************************************************)
(* Properties of the command-line parser.                                  *)
(***************************************************************************)
\* the variables the claim is about
RdFlags == {"RD_DEBUG", "RD_QUIET", "RD_PANIC", "RD_BREAK_INIT",
            "RD_BREAK_MODULE", "RD_BREAK_ROOTFS", "RD_BREAK_MOUNT"}

\* the tokens in front of the first "--"
RECURSIVE BeforeDashes(_)
BeforeDashes(tokens) ==
    IF tokens = <<>> \/ Head(tokens) = <<"--">> THEN <<>>
    ELSE <<Head(tokens)>> \o BeforeDashes(Tail(tokens))

\* the token is key=<something>
HasKey(token, k) == Len(token) >= 2 /\ token[1] = k /\ token[2] = "="

\* one of the tokens is rd.break=<csv> with one of the names in its list
Lists(tokens, names) ==
    \E i \in 1..Len(tokens) :
        /\ HasKey(tokens[i], "rd.break")
        /\ LET list == field_splitting(SubSeq(tokens[i], 3, Len(tokens[i])),
                                       <<>>)
           IN  \E j \in 1..Len(list) : list[j] \in names

\* what the claim says the tokens set INIT and the RD_* flags to
Told(tokens) ==
    LET Has(ts) == \E i \in 1..Len(tokens) : tokens[i] \in ts
        Flag(b) == IF b THEN <<<<"true">>>> ELSE <<>>
        inits   == SelectSeq(tokens, LAMBDA t : HasKey(t, "init"))
    IN  [v \in RdFlags \cup {"INIT"} |->
            CASE v = "INIT" ->
                     IF inits = <<>> THEN <<>>
                     ELSE LET t == inits[Len(inits)]
                          IN  <<SubSeq(t, 3, Len(t))>>
              [] v = "RD_DEBUG" -> Flag(Has({<<"debug">>, <<"rd.debug">>}))
              [] v = "RD_QUIET" -> Flag(Has({<<"quiet">>, <<"rd.quiet">>}))
              [] v = "RD_PANIC" -> Flag(Has({<<"rd.panic">>}))
              [] v = "RD_BREAK_INIT" -> Flag(Lists(tokens, {<<"init">>}))
              [] v = "RD_BREAK_MODULE" ->
                     Flag(Lists(tokens, {<<"module">>, <<"modules">>}))
              [] v = "RD_BREAK_ROOTFS" ->
                     Flag(Has({<<"rd.break">>})
                          \/ Lists(tokens, {<<"rootfs">>}))
              [] v = "RD_BREAK_MOUNT" ->
                     Flag(Lists(tokens, {<<"mount">>, <<"mounts">>}))]

\* C18: the parser handles the tokens of /proc/cmdline up to the first
\* "--": when it is done INIT and the RD_* flags are what the tokens in
\* front of the "--" say (init=, debug, rd.debug, quiet, rd.quiet, rd.panic,
\* rd.break, and the elements init, module(s), rootfs, mount(s) of a
\* rd.break= list) and nothing else is set, no token behind the "--" and
\* no unknown token sets any of them, and a flag once set stays set.
C18_CmdlineParser ==
    /\ [](cpc = "done" =>
             \A v \in RdFlags \cup {"INIT"} :
                 env[v] = Told(BeforeDashes(proc_cmdline))[v])
    /\ [][\A v \in RdFlags : (env[v] # <<>> => env'[v] = env[v])]_vars
    /\ [][(cpc = "after" \/ cpc = "done") =>
             (\A v \in RdFlags \cup {"INIT"} : env'[v] = env[v])]_vars

(***************************************************************************)
(* Properties of MdData.load.                                              *)
(***************************************************************************)
\* the sources in their declared order, each as the claim serializes it
RECURSIVE Declared(_)
Declared(sources) ==
    IF sources = <<>> THEN <<>>
    ELSE source_arg(Head(sources)) \o Declared(Tail(sources))

\* C19: MdData.load writes one 'MDADM_NO_UDEV=1 mdadm --assemble' command
\* whose arguments are the sources of the array in their declared order (a
\* UuidData source as '--uuid <value>', any other as its path()) followed
\* by the name of the array.
C19_MdadmCommand ==
    md_loaded =>
        /\ Len(md_out) = 2
        /\ LET head == <<"MDADM_NO_UDEV=1", " ", "mdadm", " ", "--assemble", " ">>
                           \o Declared(md.sources) \o quote(md.name)
           IN  SubSeq(md_out[2], 1, Len(head)) = head

(***************************************************************************)
(* Properties of the search of an ELF dependency.                          *)
(***************************************************************************)
\* the directories the claim says are walked, in its order
Stages(a) ==
    a.rpaths \o a.ld_library_path \o a.runpaths \o a.ld_so_conf
        \o (IF a.nodeflib THEN <<>> ELSE get_default_libdirs)

\* C22: a dependency that is not absolute is the first compatible candidate
\* of the walk DT_RPATH, LD_LIBRARY_PATH, DT_RUNPATH, ld.so.conf, default
\* lib dirs; with DF_1_NODEFLIB exactly the default-lib-dir stage is left
\* out (directories the four other stages name are still searched); a
\* dependency found nowhere raises FileNotFoundError.
C22_SearchOrder ==
    (called = "_find_elf_deps_iter" /\ result # <<>>) =>
        LET hits == SelectSeq(Stages(args),
                              LAMBDA d : args.libs[d] = "compatible")
        IN  IF hits = <<>> THEN result[1].e = "FileNotFoundError"
            ELSE /\ result[1].e = ""
                 /\ result[1].found_path = Head(hits) \o <<args.dep>>

\* C23: an add_item call that raises MergeError, for a collision or for a
\* missing parent, leaves the store exactly as it was: the list of items is
\* the same list, with the same items at the same positions and every
\* File with the destinations it had.
C23_MergeErrorLeavesStore ==
    [][raised' \in MergeError => items' = items]_vars

\* add_item raised MergeError for a File with a destination of its own
\* while the store holds a File it could have been merged into
C23_Witness ==
    /\ nadds > 0
    /\ raised \in MergeError
    /\ new_item.class = "File"
    /\ \E i \in 1..Len(items) :
          /\ is_mergeable(items[i], new_item)
          /\ ~(new_item.dests \subseteq items[i].dests)

\* the paths the i-th line of the CPIO list creates
Entries(lines, i) == {lines[i].name} \cup Range(lines[i].links)

\* C24: in every state of the store, for each item at position i and each
\* of its destinations other than '/', the parent of the destination is a
\* destination of an item at a position strictly less than i; so the walks
\* of the list in insertion order (build_to_directory, build_to_cpio_list)
\* never emit an entry before its parent.
C24_ParentsFirst ==
    /\ \A i \in 1..Len(items) : \A d \in items[i].dests \ {<<>>} :
          \E j \in 1..(i - 1) : dirname(d) \in items[j].dests
    /\ LET lines == build_to_cpio_list(items)
       IN  \A i \in 1..Len(lines) : \A d \in Entries(lines, i) \ {<<>>} :
              \E j \in 1..(i - 1) : dirname(d) \in Entries(lines, j)

\* the store holds a File, and after it the directory of the destination of
\* a File with the same content: add_item was called for the second File and
\* refused it, so the destination was not put before its parent
C24_Witness ==
    /\ nadds = MaxAdds
    /\ raised = "Missing directory"
    /\ new_item.class = "File"
    /\ \E i, j \in 1..Len(items) :
          /\ i < j
          /\ is_mergeable(items[i], new_item)
          /\ items[j].class = "Directory"
          /\ \A d \in new_item.dests : dirname(d) \in items[j].dests

\* the items of its that new compares equal to for a merge, written with the
\* fields the claim names
Mergeables(its, new) ==
    {i \in 1..Len(its) :
        IF its[i].class = "File"
        THEN /\ new.class = "File"
             /\ <<its[i].data_hash, its[i].mode, its[i].user, its[i].group>>
                    = <<new.data_hash, new.mode, new.user, new.group>>
        ELSE its[i] = new}

\* C25: the assertion 'mergeable is None' of add_item never fails: in every
\* state of the store at most one item is mergeable with any candidate
\* (at most one File for a content hash, mode, user and group, and no two
\* equal items that are not Files).
C25_OneMergeable ==
    /\ raised # "AssertionError"
    /\ \A new \in NewItems \cup Range(items) :
          Cardinality(Mergeables(items, new)) <= 1

\* add_item met the mergeable File of its argument and merged the two: the
\* File of the store owns a destination more than the argument
C25_Witness ==
    /\ nadds > 0
    /\ raised = ""
    /\ new_item.class = "File"
    /\ \E i \in Mergeables(items, new_item) :
          /\ new_item.dests \subseteq items[i].dests
          /\ new_item.dests # items[i].dests

(***************************************************************************)
(* Properties of read_config.                                              *)
(***************************************************************************)
\* the objects of S and their hard and load dependencies, transitively
RECURSIVE DepClosure(_, _)
DepClosure(data_dic, S) ==
    LET T == S \cup UNION {Range(data_dic.at[n].need) \cup Range(data_dic.at[n].lneed) :
                              n \in S}
    IN  IF T = S THEN S ELSE DepClosure(data_dic, T)

\* the root, the mounts and their transitive dependencies of a Config
Required(c) == DepClosure(c.data_dic, Range(<<c.root>> \o c.mounts))

\* C26: the Config read_config returns holds every requirement declared by
\* the root, by each mount and by each of their transitive hard and load
\* dependencies: every entry of their files, execs, libs and busybox sets
\* is in the set of that name, and every module of their kmods sets is a
\* module of the Config.
C26_RequirementsCollected ==
    (called = "read_config" /\ result # <<>> /\ result[1].e = "") =>
        \A n \in Required(result[1]) :
            /\ result[1].data_dic.at[n].files \subseteq result[1].files
            /\ result[1].data_dic.at[n].execs \subseteq result[1].execs
            /\ result[1].data_dic.at[n].libs \subseteq result[1].libs
            /\ result[1].data_dic.at[n].busybox \subseteq result[1].busybox
            /\ \A kmod \in result[1].data_dic.at[n].kmods :
                  kmod[1] \in DOMAIN result[1].modules

(***************************************************************************)
(* Properties of find_data.                                                *)
(***************************************************************************)
\* the object the claim says the identifier stands for: its class, its
\* value (path, uuid, label or section name) and its partition flag
Variant(data_str) ==
    LET v == Tail(data_str)
    IN  CASE Head(data_str) = "PATH=" -> <<"PathData", v, FALSE>>
          [] Head(data_str) = "UUID=" -> <<"UuidData", v, FALSE>>
          [] Head(data_str) = "PARTUUID=" -> <<"UuidData", v, TRUE>>
          [] Head(data_str) = "LABEL=" -> <<"LabelData", v, FALSE>>
          [] Head(data_str) = "PARTLABEL=" -> <<"LabelData", v, TRUE>>
          [] Head(data_str) = "DATA=" -> <<"LvmData", <<v, v>>, FALSE>>
          [] OTHER -> <<"PathData", data_str, FALSE>>

\* C27: find_data resolves an identifier to an object of the variant its
\* prefix selects, whatever identifiers were resolved before: PATH=x a path
\* x, UUID=x a uuid x, PARTUUID=x a partition uuid x, LABEL=x a label x,
\* PARTLABEL=x a partition label x, DATA=x the object of section x, an
\* absolute path without prefix a path; two references to the same
\* identifier return the same object.
C27_FindData ==
    called = "find_data" =>
        /\ \A i \in 1..Len(result) :
              /\ result[i].e = ""
              /\ LET o == args.data_dic.at[result[i].data]
                 IN  <<o.class, o.value, o.partition>> = Variant(args.idents[i])
        /\ \A i, j \in 1..Len(result) :
              args.idents[i] = args.idents[j] => result[i].data = result[j].data

(***************************************************************************)
(* Properties of mount_fsck.                                               *)
(***************************************************************************)
\* the bit of value b (a power of two) is set in s
BitSet(s, b) == (s \div b) % 2 = 1

\* the messages of the calls 'fsck: ...' logged, as the bits they stand for
FsckBits(logs) ==
    {b \in {1, 2, 4, 8, 16, 32, 128} :
        \E i \in 1..Len(logs) :
            /\ logs[i][2][1] = "fsck: "
            /\ logs[i][2][2] = fsck_err[CHOOSE k \in 1..Len(fsck_err) :
                                            fsck_err[k].err_code = b].err_str}

\* the number of 'fsck: ...' calls logged
FsckLines(logs) == Len(SelectSeq(logs, LAMBDA l : l[2][1] = "fsck: "))

\* C28: mount_fsck classifies every exit status s in 0..255: s = 0 returns
\* 0 and logs nothing; otherwise one 'fsck:' line is logged for each bit
\* set among 1, 2, 4, 8, 16, 32, 128; then it returns 1 without rebooting
\* if one of the bits 4, 8, 16, 32, 64, 128 is set, else it reboots if the
\* bit 2 is set, else (only the bit 1 is set) it returns 0.
C28_FsckStatus ==
    (called = "mount_fsck" /\ result # <<>>) =>
        LET s == args.fsck_ret
            r == result[1]
        IN  IF s = 0 THEN r.ret = 0 /\ r.logs = <<>> /\ ~r.reboot
            ELSE /\ FsckBits(r.logs) = {b \in {1, 2, 4, 8, 16, 32, 128} : BitSet(s, b)}
                 /\ FsckLines(r.logs) = Cardinality(FsckBits(r.logs))
                 /\ IF \E b \in {4, 8, 16, 32, 64, 128} : BitSet(s, b)
                    THEN r.ret = 1 /\ ~r.reboot
                    ELSE IF BitSet(s, 2) THEN r.reboot
                    ELSE s = 1 /\ r.ret = 0 /\ ~r.reboot

\* fsck ended with the status 64 alone: nothing was logged and 1 returned
C28_Witness ==
    /\ called = "mount_fsck"
    /\ result # <<>>
    /\ args.fsck_ret = 64
    /\ result[1].ret = 1
    /\ result[1].logs = <<>>

(***************************************************************************)
(* Properties of the logging function.                                     *)
(***************************************************************************)
\* C29: log always returns 0, and for every level 0..7 and every
\* combination of RD_DEBUG and RD_QUIET set or unset the message is written
\* to stderr exactly when the level is at most 4, or the level is 5 or 6
\* and RD_DEBUG is set or RD_QUIET is unset, or the level is 7 and RD_DEBUG
\* is set.
C29_LogMirror ==
    (called = "log" /\ result # <<>>) =>
        /\ result[1].ret = 0
        /\ \A level \in 0..7 :
              (Len(args.argv) >= 2 /\ Number(args.argv[1]) = level) =>
                  /\ result[1].stderr \in {<<>>, <<Tail(args.argv)>>}
                  /\ result[1].stderr # <<>> <=>
                         \/ level <= 4
                         \/ /\ level \in {5, 6}
                            /\ (args.RD_DEBUG # "unset" \/ args.RD_QUIET = "unset")
                         \/ level = 7 /\ args.RD_DEBUG # "unset"

\* log was called with the level 5 and a message while RD_QUIET is set and
\* RD_DEBUG is not: the message went to /dev/kmsg and not to stderr
C29_Witness ==
    /\ called = "log"
    /\ result # <<>>
    /\ args.argv = <<"5", "a", "b">>
    /\ args.RD_QUIET = ""
    /\ args.RD_DEBUG = "unset"
    /\ result[1].stderr = <<>>
    /\ result[1].kmsg = <<<<29, "a", "b">>>>

(***************************************************************************)
(* Properties of find_kmod.                                                *)
(***************************************************************************)
\* the '.ko' files at any depth under /lib/modules/<kernel> whose base name
\* is the module name followed by '.ko', '_' and '-' being one character
NamedFiles(a) ==
    {p \in a.host_files :
        /\ startswith(p, KMOD_DIR \o <<"/", a.kernel, "/">>)
        /\ replace_underscore(Spell(p[Len(p)]))
               = replace_underscore(Spell(a.module[1])) \o <<".ko">>}

\* C30: find_kmod with a name that is not absolute returns a '.ko' file at
\* any directory depth under /lib/modules/<kernel> whose base name is the
\* name followed by '.ko' once '_' and '-' are taken as the same, and
\* raises FileNotFoundError only when the tree holds no such file; an
\* absolute name is returned unchanged.
C30_FindKmod ==
    (called = "find_kmod" /\ result # <<>>) =>
        IF isabs(args.module)
        THEN result[1].e = "" /\ result[1].path = args.module
        ELSE IF NamedFiles(args) = {}
        THEN result[1].e = "FileNotFoundError"
        ELSE result[1].e = "" /\ result[1].path \in NamedFiles(args)

====
